---- MODULE Spec2Model ----
(***************************************************************************)
(* Model of the doodly collaborative canvas server:                        *)
(*   - DrawingState (src/server/drawing-state.js): one room's ordered      *)
(*     operation history, its redo stack and its files on disk;            *)
(*   - RoomManager (src/unnamed/part_001): sessions, room membership and   *)
(*     the timers for reconnection grace, empty rooms and the room list.   *)
(***************************************************************************)
EXTENDS Integers, Sequences, FiniteSets, TLC

\* ------------------------------------------------------------------------
\* Bounds
\* ------------------------------------------------------------------------
MaxTs == 2
MaxLen == 2
MaxAdds == 3
MaxSockets == 3
MaxListSockets == 2

\* members counted in one room of the room list
MaxMembers == 2

\* ------------------------------------------------------------------------
\* Program constants
\* ------------------------------------------------------------------------
\* the room list broadcast is debounced by 2000 ms; time is counted in seconds
Debounce == 2

\* the delay of the timer of checkEmptyRoom, 30 s, in units of 10 s
EmptyWindow == 3

\* saveToDisk is debounced by 1000 ms
SaveDebounce == 1

\* ------------------------------------------------------------------------
\* DrawingState: state
\* ------------------------------------------------------------------------
VARIABLES
    history,        \* this.drawingHistory
    historyIsArray, \* FALSE when drawingHistory holds a parsed non-array value
    redoStack,      \* this.redoStack (top is the last element)
    saveTimeout,    \* TRUE while the timer set by debouncedSave is pending
    primary,        \* content of <room>.json
    backup,         \* content of <room>.json.backup
    diskWritable,   \* FALSE when writes to the data directory fail (and are caught)
    last,           \* the call handled last and its result
    pre,            \* drawingHistory before the last add/update, or before a load that follows a save
    rt              \* drawingHistory and redoStack before an undo, kept over the redo that follows it

logVars == <<history, historyIsArray, redoStack, saveTimeout, primary, backup, diskWritable, last, pre, rt>>

\* ------------------------------------------------------------------------
\* RoomManager: state
\* ------------------------------------------------------------------------
VARIABLES
    sock,           \* per socket: its state, and the roomName and session key of its handshake
    rooms,          \* this.rooms: per room name, whether it exists and the ids in room.users
    userSessions,   \* this.userSessions: per session key, { roomName, user.id } when present
    graceTimers,    \* pending 5 s timers of the disconnect handlers, oldest first
    emptyTimers,    \* pending 30 s timers of checkEmptyRoom, oldest first
    listTimers,     \* seconds left on the pending timers of debouncedBroadcastRoomList
    sinceTrigger,   \* seconds since the last call of debouncedBroadcastRoomList (capped)
    sinceBroadcast, \* seconds since the last room list broadcast to all (capped)
    uncovered,      \* handlers that called debouncedBroadcastRoomList since the last broadcast (capped)
    leftCount,      \* per socket: how many user:left notices were emitted for it (capped)
    lastH,          \* the handler or timer callback that ran last
    out             \* the messages it emitted, in order

roomVars == <<sock, rooms, userSessions, graceTimers, emptyTimers, listTimers,
              sinceTrigger, sinceBroadcast, uncovered, leftCount, lastH, out>>

\* ------------------------------------------------------------------------
\* DrawingState: the steps of a save, and the clock of the save timer
\* ------------------------------------------------------------------------
VARIABLES
    tmp,            \* content of <room>.json.tmp
    saving,         \* the saveToDisk call in progress or made last: its position and what it writes
    saveClock       \* seconds left on the timers of debouncedSave, and what the last write answered

saveVars == <<tmp, saving, saveClock>>

\* ------------------------------------------------------------------------
\* DrawingState: the array a caller holds
\* ------------------------------------------------------------------------
VARIABLES
    snapshot        \* the array getHistory() returned last, as its caller has it now

\* ------------------------------------------------------------------------
\* RoomManager: the room list, and the log of the other room
\* ------------------------------------------------------------------------
VARIABLES
    roomList,       \* room names as typed, the room files, and what getRoomList() returned last
    elsewhere,      \* the DrawingState and the files of the room that is not LogRoom
    window,         \* the time left on each timer of emptyTimers, and for how long
                    \* each room has been without a user
    old,            \* the DrawingState of LogRoom that was removed from the map and
                    \* is still referenced by the handlers of earlier sockets
    client          \* one SocketService of a browser: its socket, its reconnection
                    \* fields and its pending setTimeout callbacks

sideVars == <<snapshot, roomList, elsewhere, window, old, client>>

vars == <<logVars, roomVars, saveVars, sideVars>>

\* An operation: the empty id stands for a missing id, timestamp 0 for a
\* missing (falsy) timestamp; payload stands for the kind-specific fields.
NoId == ""
Ids == {NoId, "a", "b"}
Timestamps == 0..MaxTs
Payloads == {"p", "q"}
Ops == [id : Ids, timestamp : Timestamps, payload : Payloads]
NoOp == [id |-> NoId, timestamp |-> 0, payload |-> "p"]

\* Date.now(): some non-zero time
Now == 1..MaxTs

\* the values of Date.now() that matter to a call with this operation: it is
\* only read when the operation carries no timestamp
NowFor(op) == IF op.timestamp = 0 THEN Now ELSE {1}

\* File contents
Absent == [kind |-> "absent", ops |-> <<>>]
Corrupt == [kind |-> "corrupt", ops |-> <<>>]
NotArray == [kind |-> "notarray", ops |-> <<>>]
ArrayFile(s) == [kind |-> "array", ops |-> s]

RECURSIVE SeqsUpTo(_, _)
SeqsUpTo(S, n) ==
    IF n = 0 THEN {<<>>}
    ELSE LET shorter == SeqsUpTo(S, n - 1)
         IN shorter \cup {Append(s, x) : s \in {t \in shorter : Len(t) = n - 1}, x \in S}

\* ------------------------------------------------------------------------
\* DrawingState: pure helpers
\* ------------------------------------------------------------------------
IsSorted(s) == \A i \in 1..(Len(s) - 1) : s[i].timestamp <= s[i + 1].timestamp

InsertAt(s, k, x) == SubSeq(s, 1, k) \o <<x>> \o SubSeq(s, k + 1, Len(s))

RemoveAt(s, k) == SubSeq(s, 1, k - 1) \o SubSeq(s, k + 1, Len(s))

\* One step of a stable sort: x goes behind every element that does not
\* compare greater than it.
RECURSIVE StablePlace(_, _)
StablePlace(acc, x) ==
    IF acc = <<>> THEN <<x>>
    ELSE IF acc[Len(acc)].timestamp <= x.timestamp THEN Append(acc, x)
    ELSE Append(StablePlace(SubSeq(acc, 1, Len(acc) - 1), x), acc[Len(acc)])

\* sortOperations: Array.prototype.sort (stable) on (a.timestamp || 0) - (b.timestamp || 0)
RECURSIVE sortOperations(_)
sortOperations(s) ==
    IF s = <<>> THEN <<>>
    ELSE StablePlace(sortOperations(SubSeq(s, 1, Len(s) - 1)), s[Len(s)])

\* findIndex(op => op.id === id): first index, 0 when there is none
findIndex(s, id) ==
    IF \E i \in 1..Len(s) : s[i].id = id
    THEN CHOOSE i \in 1..Len(s) : s[i].id = id /\ \A j \in 1..(i - 1) : s[j].id # id
    ELSE 0

\* JSON.stringify / JSON.parse of an operation array
stringify(s) == [i \in 1..Len(s) |-> <<s[i].id, s[i].timestamp, s[i].payload>>]
parse(t) == [i \in 1..Len(t) |-> [id |-> t[i][1], timestamp |-> t[i][2], payload |-> t[i][3]]]

\* loadFromDisk: the value of drawingHistory, and whether it is an array,
\* for a freshly constructed DrawingState
loadFromDisk(p, b) ==
    IF p.kind = "absent" THEN [h |-> <<>>, isArray |-> TRUE]
    ELSE IF p.kind = "array" THEN [h |-> sortOperations(parse(p.ops)), isArray |-> TRUE]
    ELSE IF p.kind = "notarray" THEN [h |-> <<>>, isArray |-> TRUE]
    ELSE \* readFileSync / JSON.parse threw
         IF b.kind = "absent" THEN [h |-> <<>>, isArray |-> TRUE]
         ELSE IF b.kind = "array" THEN [h |-> parse(b.ops), isArray |-> TRUE]
         ELSE IF b.kind = "notarray" THEN [h |-> <<>>, isArray |-> FALSE]
         ELSE [h |-> <<>>, isArray |-> TRUE]

\* saveToDisk that writes the temporary file but never renames it
saveToDiskNoRename(h, isArray, p, b, writable) ==
    [primary |-> p, backup |-> IF writable /\ p.kind # "absent" THEN p ELSE b]

\* saveToDisk: the files afterwards. When the directory refuses writes,
\* copyFileSync or writeFileSync throws and the catch block only logs.
saveToDisk(h, isArray, p, b, writable) ==
    IF writable
    THEN [primary |-> IF isArray THEN ArrayFile(stringify(h)) ELSE NotArray,
          backup  |-> IF p.kind # "absent" THEN p ELSE b]
    ELSE [primary |-> p, backup |-> b]

\* ------------------------------------------------------------------------
\* DrawingState: the methods, as functions of the in-memory state
\* s = [h |-> drawingHistory, r |-> redoStack, t |-> save timer pending]
\* ------------------------------------------------------------------------
\* "if (!operation.timestamp) operation.timestamp = Date.now()"
stamp(op, now) == IF op.timestamp = 0 THEN [op EXCEPT !.timestamp = now] ELSE op

\* addOperation that pushes without sorting
addOperationNoSort(s, op, now) ==
    [h |-> Append(s.h, stamp(op, now)),
     r |-> <<>>,
     t |-> TRUE]

addOperation(s, op, now) ==
    [h |-> sortOperations(Append(s.h, stamp(op, now))),
     r |-> <<>>,
     t |-> TRUE]

\* an update that takes the submitted timestamp first
updatedTimestampSubmitted(orig, op, now) ==
    IF op.timestamp # 0 THEN op.timestamp
    ELSE IF orig # 0 THEN orig
    ELSE now

\* the timestamp an updated operation ends up with:
\* originalTimestamp || operation.timestamp || Date.now()
updatedTimestamp(orig, op, now) ==
    IF orig # 0 THEN orig
    ELSE IF op.timestamp # 0 THEN op.timestamp
    ELSE now

\* updateOperationById that forgets to clear the redo stack when it replaces
updateOperationByIdKeepsRedo(s, op, now) ==
    IF op.id = NoId THEN addOperation(s, op, now)
    ELSE LET index == findIndex(s.h, op.id)
         IN IF index > 0
            THEN [h |-> [s.h EXCEPT ![index] =
                           [op EXCEPT !.timestamp = updatedTimestamp(s.h[index].timestamp, op, now)]],
                  r |-> s.r,
                  t |-> TRUE]
            ELSE addOperation(s, op, now)

updateOperationById(s, op, now) ==
    IF op.id = NoId THEN addOperation(s, op, now)
    ELSE LET index == findIndex(s.h, op.id)
         IN IF index > 0
            THEN [h |-> [s.h EXCEPT ![index] =
                           [op EXCEPT !.timestamp = updatedTimestamp(s.h[index].timestamp, op, now)]],
                  r |-> <<>>,
                  t |-> TRUE]
            ELSE addOperation(s, op, now)

undo(s) ==
    IF Len(s.h) = 0 THEN s
    ELSE [h |-> SubSeq(s.h, 1, Len(s.h) - 1),
          r |-> Append(s.r, s.h[Len(s.h)]),
          t |-> TRUE]

\* a redo that calls debouncedSave before it looks at the redo stack
redoAlwaysSaves(s) ==
    IF Len(s.r) = 0 THEN [s EXCEPT !.t = TRUE]
    ELSE [h |-> sortOperations(Append(s.h, s.r[Len(s.r)])),
          r |-> SubSeq(s.r, 1, Len(s.r) - 1),
          t |-> TRUE]

redo(s) ==
    IF Len(s.r) = 0 THEN s
    ELSE [h |-> sortOperations(Append(s.h, s.r[Len(s.r)])),
          r |-> SubSeq(s.r, 1, Len(s.r) - 1),
          t |-> TRUE]

mem == [h |-> history, r |-> redoStack, t |-> saveTimeout]

NoRt == [phase |-> "none", h |-> <<>>, r |-> <<>>]

\* What is recorded of the last call: its kind, the operation it was given
\* (or took off a stack), whether it succeeded, the index updateOperationById
\* found, how many redo entries it dropped, and, for a load, the call before it
Called(kind, op, ok, index) ==
    [kind |-> kind, op |-> op, ok |-> ok, index |-> index, dropped |-> 0, prev |-> "none"]

\* ------------------------------------------------------------------------
\* DrawingState: saveToDisk step by step
\* ------------------------------------------------------------------------
\* a file of which only a part was written when the process stopped or the
\* write failed: reading it as JSON throws
Partial == [kind |-> "partial", ops |-> <<>>]

\* JSON.stringify(this.drawingHistory, null, 2) as file content
serialized(h, isArray) == IF isArray THEN ArrayFile(stringify(h)) ELSE NotArray

\* the three files of a room: f = [primary, backup, tmp]
\* "if (fs.existsSync(filePath)) fs.copyFileSync(filePath, backupPath)"
copyStep(f) == IF f.primary.kind # "absent" THEN [f EXCEPT !.backup = f.primary] ELSE f

\* fs.writeFileSync(tempFilePath, data)
writeStep(f, data) == [f EXCEPT !.tmp = data]

\* a rename that removes the temporary file and leaves the primary file
renameStepDropsTmp(f) == [f EXCEPT !.tmp = Absent]

\* fs.renameSync(tempFilePath, filePath)
renameStep(f) == [f EXCEPT !.primary = f.tmp, !.tmp = Absent]

\* copyFileSync interrupted
tornCopy(f) == IF f.primary.kind # "absent" THEN [f EXCEPT !.backup = Partial] ELSE f

\* a write interrupted while it goes to the primary file itself
tornWriteInPlace(f) == [f EXCEPT !.primary = Partial]

\* writeFileSync interrupted
tornWrite(f) == [f EXCEPT !.tmp = Partial]

roomFiles == [primary |-> primary, backup |-> backup, tmp |-> tmp]

\* no saveToDisk call in progress
NotSaving(p, b) ==
    [pc |-> "idle", kind |-> "none", from |-> p, backupFrom |-> b, to |-> p,
     h |-> <<>>, r |-> <<>>, result |-> "none", afterFailure |-> FALSE]

\* the save timer: no timer set, no write made
NoClock ==
    [timers |-> <<>>, since |-> SaveDebounce, pending |-> 0, calls |-> 0,
     quiet |-> 0, covered |-> 0]

\* a debouncedSave that leaves the timer of the call before it running
debouncedSaveNoClear(timers) == Append(timers, SaveDebounce)

\* debouncedSave(): clearTimeout(this.saveTimeout), then setTimeout of 1000 ms
debouncedSave(timers) == <<SaveDebounce>>

\* no room has been named, no room file written, getRoomList() not called
NoRoomList == [live |-> {}, files |-> {}, list |-> {}]

\* a DrawingState of a room without files
NoLog ==
    [history |-> <<>>, redoStack |-> <<>>, saveTimeout |-> FALSE,
     primary |-> Absent, backup |-> Absent]

\* no room has been removed from the map
NoOld ==
    [made |-> FALSE, history |-> <<>>, redoStack |-> <<>>, saveTimeout |-> FALSE,
     before |-> 0, evicted |-> [done |-> FALSE, h |-> <<>>, pending |-> FALSE]]

\* new SocketService(): no socket, no timer; the fields after reportedLimit
\* record what the service did (connects issued by a timer since the last
\* 'connect' event, whether disconnect() was called, the callback run last)
NoClient ==
    [socket |-> "null", reconnectAttempts |-> 0, reconnectDelay |-> 1,
     isIntentionalDisconnect |-> FALSE, timers |-> <<>>, error |-> "",
     reportedLimit |-> FALSE, issued |-> 0, intended |-> FALSE,
     lastRun |-> [kind |-> "none", k |-> 0, waited |-> 0, connected |-> FALSE,
                  intended |-> FALSE]]

\* no timer of checkEmptyRoom is set
NoWindow == [due |-> <<>>, idle |-> [r \in {"alpha", "beta"} |-> 0]]

\* no call of getHistory() has returned yet
NoSnapshot == [taken |-> FALSE, items |-> <<>>]

SaveStart ==
    /\ tmp = Absent
    /\ saving = NotSaving(primary, backup)
    /\ saveClock = NoClock
    /\ snapshot = NoSnapshot
    /\ roomList = NoRoomList
    /\ elsewhere = NoLog
    /\ window = NoWindow
    /\ old = NoOld
    /\ client = NoClient

\* ------------------------------------------------------------------------
\* RoomManager: values
\* ------------------------------------------------------------------------
\* socket.id of the connections the server accepts, in the order of arrival
SocketIds == 1..MaxSockets

\* roomName of the handshake query
RoomNames == {"alpha", "beta"}

\* sessionId of the handshake query; NoToken is a query without sessionId
NoToken == ""
Tokens == {NoToken, "T"}

\* user.sessionId: sessionId || socket.id
sessionKey(tok, s) ==
    IF tok = NoToken THEN [tok |-> NoToken, sid |-> s] ELSE [tok |-> tok, sid |-> 0]

SessionKeys == {sessionKey(tok, s) : tok \in Tokens, s \in SocketIds}

\* userSessions.get(sessionId) of a session that is not stored
NoSession == [present |-> FALSE, roomName |-> "", userId |-> 0]

\* a socket the server has not seen yet
NewSocket == [state |-> "new", room |-> "", key |-> sessionKey(NoToken, 0)]

\* rooms.get(roomName) of a room that is not in the map
NoRoom == [exists |-> FALSE, users |-> {}]

\* one emit: io.to(room) is scope "room", socket.to(room) is "others",
\* socket.emit is "socket", io.emit is "all"
Msg(ev, scope, room, s, about, members) ==
    [ev |-> ev, scope |-> scope, room |-> room, sock |-> s, about |-> about,
     members |-> members]

\* socket.handshake.query; a field that is missing is ""
Query(roomName, username, color, sessionId) ==
    [roomName |-> roomName, username |-> username, color |-> color, sessionId |-> sessionId]

NoQuery == Query("", "", "", NoToken)

\* the queries of the clients that leave something out
IncompleteQueries ==
    {Query("", "u", "c", NoToken), Query("alpha", "", "c", NoToken),
     Query("alpha", "u", "", NoToken), NoQuery}

\* a test of the query that forgets the color
completeNoColor(q) == q.roomName # "" /\ q.username # ""

\* the negation of "!roomName || !username || !color"
complete(q) == q.roomName # "" /\ q.username # "" /\ q.color # ""

Ran(kind, s, room) ==
    [kind |-> kind, sock |-> s, room |-> room, prior |-> NoSession, stale |-> FALSE,
     changed |-> FALSE, quiet |-> 0, gap |-> 0, covered |-> 0, query |-> NoQuery]

Min(a, b) == IF a < b THEN a ELSE b

\* ------------------------------------------------------------------------
\* RoomManager: methods
\* ------------------------------------------------------------------------
\* a delete that leaves the entry in room.users
deleteUserKeeps(rm, roomName, id) == rm

\* room.users.delete(id)
deleteUser(rm, roomName, id) ==
    [rm EXCEPT ![roomName].users = @ \ {id}]

\* a reconnection that is acknowledged to the whole room
reconnectNoticesToRoom(roomName, s) ==
    <<Msg("server:reconnected", "room", roomName, 0, 0, {})>>

\* the reconnection branch of handleConnection: socket.emit('server:reconnected')
reconnectNotices(roomName, s) ==
    <<Msg("server:reconnected", "socket", "", s, 0, {})>>

\* a room switch that tells the old room nothing
switchNoticesNone(rm, oldRoomName, oldId) == <<>>

\* the room-switch branch of handleConnection: the notices to the old room
switchNotices(rm, oldRoomName, oldId) ==
    <<Msg("user:left", "room", oldRoomName, 0, oldId, {}),
      Msg("users:load", "room", oldRoomName, 0, 0, rm[oldRoomName].users)>>

\* a test that only asks whether the room is in the map
checkEmptyRoomAnySize(rm, roomName) == rm[roomName].exists

\* checkEmptyRoom(roomName): TRUE when it sets the 30 s timer, FALSE when it
\* calls debouncedBroadcastRoomList instead
checkEmptyRoom(rm, roomName) ==
    rm[roomName].exists /\ rm[roomName].users = {}

\* a debounce that sets a new timer without clearing the pending one
debouncedBroadcastRoomListNoClear(timers) == Append(timers, Debounce)

\* debouncedBroadcastRoomList(): clearTimeout, then setTimeout of 2000 ms
debouncedBroadcastRoomList(timers) == <<Debounce>>

\* a join that creates the room but does not enter the user
joinRoomNoEntry(rm, roomName, s) ==
    [rm EXCEPT ![roomName] = [exists |-> TRUE, users |-> IF @.exists THEN @.users ELSE {}]]

\* joinRoom(socket, roomName, user): the room map afterwards
joinRoom(rm, roomName, s) ==
    [rm EXCEPT ![roomName] =
        [exists |-> TRUE, users |-> (IF @.exists THEN @.users ELSE {}) \cup {s}]]

\* the room whose DrawingState the variables history, redoStack, saveTimeout,
\* primary and backup hold; that of OtherRoom is in elsewhere
LogRoom == "alpha"
OtherRoom == "beta"

\* socket.emit('server:history:load', room.state.getHistory())
JoinHistoryMsg(scope, roomName, s, h) ==
    [ev |-> "server:history:load", scope |-> scope, room |-> roomName, sock |-> s,
     about |-> 0, members |-> {}, history |-> h]

\* a join that sends the history and the room list to the whole room
joinNoticesToRoom(rm, roomName, s, h) ==
    <<Msg("users:load", "room", roomName, 0, 0, rm[roomName].users),
      JoinHistoryMsg("room", roomName, s, h),
      Msg("server:rooms:list", "room", roomName, s, 0, {}),
      Msg("user:joined", "others", roomName, s, s, {})>>

\* the emits of joinRoom, rm being the room map after the join and h the
\* value of room.state.getHistory()
joinNotices(rm, roomName, s, h) ==
    <<Msg("users:load", "room", roomName, 0, 0, rm[roomName].users),
      JoinHistoryMsg("socket", roomName, s, h),
      Msg("server:rooms:list", "socket", "", s, 0, {}),
      Msg("user:joined", "others", roomName, s, s, {})>>

\* a timer test that takes every disconnected socket for replaced
mayLeaveNever(cur, s) == FALSE

\* the test of the disconnect timer: is the socket to leave its room
mayLeave(cur, s) == ~cur.present \/ cur.userId = s

\* leaveRoom(socket, roomName, user): the room map afterwards
leaveRoom(rm, roomName, s) ==
    IF rm[roomName].exists THEN deleteUser(rm, roomName, s) ELSE rm

\* the emits of leaveRoom, rm being the room map after it
leaveNotices(rm, roomName, s) ==
    <<Msg("user:left", "others", roomName, s, s, {}),
      Msg("users:load", "room", roomName, 0, 0, rm[roomName].users)>>

\* the user:left notices of a handler, counted per socket
CountLeft(msgs, counts) ==
    [s \in SocketIds |->
        Min(2, counts[s] + Cardinality({i \in 1..Len(msgs) :
                                          msgs[i].ev = "user:left" /\ msgs[i].about = s}))]

\* ------------------------------------------------------------------------
\* RoomManager: the handlers and timer callbacks
\* ------------------------------------------------------------------------
RoomStart ==
    /\ sock = [s \in SocketIds |-> NewSocket]
    /\ rooms = [r \in RoomNames |-> NoRoom]
    /\ userSessions = [k \in SessionKeys |-> NoSession]
    /\ graceTimers = <<>>
    /\ emptyTimers = <<>>
    /\ listTimers = <<>>
    /\ sinceTrigger = Debounce
    /\ sinceBroadcast = Debounce
    /\ uncovered = 0
    /\ leftCount = [s \in SocketIds |-> 0]
    /\ lastH = Ran("start", 0, "")
    /\ out = <<>>

\* a handler that called debouncedBroadcastRoomList (called), or did not
Debounced(called) ==
    IF called
    THEN /\ listTimers' = debouncedBroadcastRoomList(listTimers)
         /\ sinceTrigger' = 0
         /\ uncovered' = Min(2, uncovered + 1)
    ELSE UNCHANGED <<listTimers, sinceTrigger, uncovered>>

\* setTimeout(..., 30000) of checkEmptyRoom when timed, rm being the room map
\* the handler leaves; a room with a user has been empty for no time
windowAfter(rm, timed) ==
    [due |-> IF timed THEN Append(window.due, EmptyWindow) ELSE window.due,
     idle |-> [r \in RoomNames |-> IF rm[r].users # {} THEN 0 ELSE window.idle[r]]]

\* handleConnection(socket), q being socket.handshake.query
handleConnection(s, q) ==
    /\ sock[s].state = "new"
    /\ \A t \in SocketIds : t < s => sock[t].state # "new"
    /\ IF ~complete(q)
       THEN \* socket.emit('server:error'); socket.disconnect(); return
            /\ sock' = [sock EXCEPT ![s].state = "rejected"]
            /\ out' = <<Msg("server:error", "socket", "", s, 0, {})>>
            /\ lastH' = [Ran("reject", s, "") EXCEPT !.query = q]
            /\ UNCHANGED <<rooms, userSessions, emptyTimers, listTimers,
                           sinceTrigger, uncovered, leftCount>>
            /\ UNCHANGED <<history, historyIsArray, redoStack, saveTimeout, elsewhere, window>>
       ELSE LET roomName == q.roomName
                key == sessionKey(q.sessionId, s)
                existingSession == userSessions[key]
                oldRoomName == existingSession.roomName
                oldId == existingSession.userId
                found == /\ existingSession.present
                         /\ rooms[oldRoomName].exists
                         /\ oldId \in rooms[oldRoomName].users
                switched == found /\ oldRoomName # roomName
                rooms1 == IF found THEN deleteUser(rooms, oldRoomName, oldId) ELSE rooms
                out1 == IF ~found THEN <<>>
                        ELSE IF oldRoomName = roomName
                             THEN reconnectNotices(roomName, s)
                             ELSE switchNotices(rooms1, oldRoomName, oldId)
                timed == switched /\ checkEmptyRoom(rooms1, oldRoomName)
                rooms2 == joinRoom(rooms1, roomName, s)
                \* new DrawingState(roomName) when the room is not in the map
                created == ~rooms1[roomName].exists
                loaded == IF roomName = LogRoom THEN loadFromDisk(primary, backup)
                          ELSE loadFromDisk(elsewhere.primary, elsewhere.backup)
                h == IF created THEN loaded.h
                     ELSE IF roomName = LogRoom THEN history ELSE elsewhere.history
                out2 == out1 \o joinNotices(rooms2, roomName, s, h)
            IN /\ rooms' = rooms2
               /\ IF created /\ roomName = LogRoom
                  THEN /\ history' = loaded.h
                       /\ historyIsArray' = loaded.isArray
                       /\ redoStack' = <<>>
                       /\ saveTimeout' = FALSE
                  ELSE UNCHANGED <<history, historyIsArray, redoStack, saveTimeout>>
               /\ elsewhere' =
                      IF created /\ roomName = OtherRoom
                      THEN [elsewhere EXCEPT !.history = loaded.h,
                                             !.redoStack = <<>>,
                                             !.saveTimeout = FALSE]
                      ELSE elsewhere
               /\ userSessions' = [userSessions EXCEPT ![key] =
                     [present |-> TRUE, roomName |-> roomName, userId |-> s]]
               /\ sock' = [sock EXCEPT ![s] =
                     [state |-> "connected", room |-> roomName, key |-> key]]
               /\ emptyTimers' = IF timed THEN Append(emptyTimers, oldRoomName)
                                 ELSE emptyTimers
               /\ window' = windowAfter(rooms2, timed)
               /\ Debounced(switched \/ ~rooms1[roomName].exists)
               /\ out' = out2
               /\ leftCount' = CountLeft(out2, leftCount)
               /\ lastH' = [Ran("connect", s, roomName) EXCEPT !.prior = existingSession,
                                                               !.changed = TRUE,
                                                               !.query = q]
    /\ UNCHANGED <<primary, backup, diskWritable, last, pre, rt>>
    /\ UNCHANGED saveVars
    /\ UNCHANGED <<snapshot, roomList, client>>
    /\ UNCHANGED <<graceTimers, sinceBroadcast>>

\* handleConnection(socket) where no DrawingState outlives its room
HandleQuery(s, q) == handleConnection(s, q) /\ UNCHANGED old

\* handleConnection(socket) with a query that lacks roomName, username or color
RejectConnection(s) == \E q \in IncompleteQueries : HandleQuery(s, q)

\* handleConnection(socket) with a complete query
HandleConnection(s, roomName, tok) == HandleQuery(s, Query(roomName, "u", "c", tok))

\* the disconnect handler: it only starts the 5 s timer
Disconnect(s) ==
    /\ sock[s].state = "connected"
    /\ sock' = [sock EXCEPT ![s].state = "closed"]
    /\ graceTimers' = Append(graceTimers, s)
    /\ out' = <<>>
    /\ lastH' = Ran("disconnect", s, sock[s].room)
    /\ UNCHANGED logVars
    /\ UNCHANGED saveVars
    /\ UNCHANGED sideVars
    /\ UNCHANGED <<rooms, userSessions, emptyTimers, listTimers, sinceTrigger,
                   sinceBroadcast, uncovered, leftCount>>

\* the 5 s timer of the disconnect handler fires
GraceTimerFires ==
    /\ Len(graceTimers) > 0
    /\ LET s == Head(graceTimers)
           roomName == sock[s].room
           key == sock[s].key
           currentSession == userSessions[key]
           leaves == mayLeave(currentSession, s)
           left == leaves /\ rooms[roomName].exists
           rooms1 == IF leaves THEN leaveRoom(rooms, roomName, s) ELSE rooms
           out1 == IF left THEN leaveNotices(rooms1, roomName, s) ELSE <<>>
           timed == left /\ checkEmptyRoom(rooms1, roomName)
       IN /\ graceTimers' = Tail(graceTimers)
          /\ rooms' = rooms1
          /\ userSessions' = IF leaves THEN [userSessions EXCEPT ![key] = NoSession]
                             ELSE userSessions
          /\ emptyTimers' = IF timed THEN Append(emptyTimers, roomName) ELSE emptyTimers
          /\ window' = windowAfter(rooms1, timed)
          /\ Debounced(left /\ ~timed)
          /\ out' = out1
          /\ leftCount' = CountLeft(out1, leftCount)
          /\ lastH' = [Ran("grace", s, roomName) EXCEPT
                          !.prior = currentSession,
                          !.stale = ~(currentSession.present /\ currentSession.userId = s),
                          !.changed = (rooms1 # rooms)]
    /\ UNCHANGED logVars
    /\ UNCHANGED saveVars
    /\ UNCHANGED <<snapshot, roomList, elsewhere, old, client>>
    /\ UNCHANGED <<sock, sinceBroadcast>>

\* the callback of the 30 s timer of checkEmptyRoom
emptyRoomTimer ==
    /\ Len(emptyTimers) > 0
    /\ LET roomName == Head(emptyTimers)
           deleted == checkEmptyRoom(rooms, roomName)
       IN /\ emptyTimers' = Tail(emptyTimers)
          /\ window' = [due |-> Tail(window.due),
                         idle |-> [r \in RoomNames |->
                                     IF deleted /\ r = roomName THEN 0 ELSE window.idle[r]]]
          /\ rooms' = IF deleted THEN [rooms EXCEPT ![roomName] = NoRoom] ELSE rooms
          /\ Debounced(deleted)
          /\ lastH' = [Ran("empty", 0, roomName) EXCEPT !.changed = deleted]
    /\ out' = <<>>
    /\ UNCHANGED logVars
    /\ UNCHANGED saveVars
    /\ UNCHANGED <<snapshot, roomList, elsewhere, client>>
    /\ UNCHANGED <<sock, userSessions, graceTimers, sinceBroadcast, leftCount>>

\* the 30 s timer of checkEmptyRoom fires
EmptyRoomTimerFires == emptyRoomTimer /\ UNCHANGED old

\* the same timer on the clock: its 30 s are over
EmptyRoomTimerDue ==
    /\ window.due # <<>>
    /\ window.due[1] = 0
    /\ EmptyRoomTimerFires

\* 10 s pass while no timer of checkEmptyRoom is due
WindowTick ==
    /\ \A i \in 1..Len(window.due) : window.due[i] > 0
    /\ window' = [due |-> [i \in 1..Len(window.due) |-> window.due[i] - 1],
                  idle |-> [r \in RoomNames |->
                              IF rooms[r].exists /\ rooms[r].users = {}
                              THEN Min(EmptyWindow, window.idle[r] + 1) ELSE 0]]
    /\ UNCHANGED logVars
    /\ UNCHANGED roomVars
    /\ UNCHANGED saveVars
    /\ UNCHANGED <<snapshot, roomList, elsewhere, old, client>>

\* a timer of debouncedBroadcastRoomList fires: io.emit('server:rooms:list')
RoomListTimerFires ==
    /\ \E i \in 1..Len(listTimers) :
         /\ listTimers[i] = 0
         /\ listTimers' = RemoveAt(listTimers, i)
    /\ out' = <<Msg("server:rooms:list", "all", "", 0, 0, {})>>
    /\ lastH' = [Ran("roomList", 0, "") EXCEPT !.quiet = sinceTrigger,
                                               !.gap = sinceBroadcast,
                                               !.covered = uncovered]
    /\ sinceBroadcast' = 0
    /\ uncovered' = 0
    /\ UNCHANGED logVars
    /\ UNCHANGED saveVars
    /\ UNCHANGED sideVars
    /\ UNCHANGED <<sock, rooms, userSessions, graceTimers, emptyTimers, sinceTrigger,
                   leftCount>>

\* one second passes
Tick ==
    /\ listTimers' = [i \in 1..Len(listTimers) |->
                        IF listTimers[i] > 0 THEN listTimers[i] - 1 ELSE 0]
    /\ sinceTrigger' = Min(Debounce, sinceTrigger + 1)
    /\ sinceBroadcast' = Min(Debounce, sinceBroadcast + 1)
    /\ UNCHANGED logVars
    /\ UNCHANGED saveVars
    /\ UNCHANGED sideVars
    /\ UNCHANGED <<sock, rooms, userSessions, graceTimers, emptyTimers, uncovered,
                   leftCount, lastH, out>>

\* ------------------------------------------------------------------------
\* DrawingState: the calls and the files they start from
\* ------------------------------------------------------------------------
\* The content a room file can have when the server first starts: written
\* by an earlier version, so possibly out of order, truncated or not an
\* array; ids are unique within a file
LegacyOps ==
    {[id |-> "a", timestamp |-> 2, payload |-> "p"],
     [id |-> "b", timestamp |-> 1, payload |-> "p"]}

UniqueIds(s) == \A i, j \in 1..Len(s) : s[i].id = s[j].id => i = j

LegacyFiles ==
    {Absent, Corrupt, NotArray} \cup
    {ArrayFile(stringify(s)) : s \in {t \in SeqsUpTo(LegacyOps, MaxLen) : UniqueIds(t)}}

\* One of them, for the in-memory runs: out of order, and its second
\* operation has no timestamp
LegacySample ==
    {ArrayFile(stringify(<<[id |-> "b", timestamp |-> 1, payload |-> "p"],
                           [id |-> "a", timestamp |-> 0, payload |-> "p"]>>))}

\* The operations submitted in the runs that follow the files on disk
DiskOps ==
    {[id |-> "a", timestamp |-> 2, payload |-> "p"],
     [id |-> "b", timestamp |-> 1, payload |-> "p"]}

LogStart(writable, files) ==
    /\ primary \in files
    /\ backup = Absent
    /\ diskWritable = writable
    /\ history = loadFromDisk(primary, backup).h
    /\ historyIsArray = loadFromDisk(primary, backup).isArray
    /\ redoStack = <<>>
    /\ saveTimeout = FALSE
    /\ last = Called("load", NoOp, TRUE, 0)
    /\ pre = <<>>
    /\ rt = NoRt
    /\ RoomStart
    /\ SaveStart

\* addOperation(operation); on a non-array drawingHistory push() throws
AddOperationUpTo(op, bound) ==
    /\ Len(history) < bound
    /\ \E now \in NowFor(op) :
         IF historyIsArray
         THEN LET s == addOperation(mem, op, now)
              IN /\ history' = s.h
                 /\ redoStack' = s.r
                 /\ saveTimeout' = s.t
                 /\ last' = [Called("add", stamp(op, now), TRUE, 0) EXCEPT !.dropped = Len(redoStack)]
                 /\ pre' = history
         ELSE /\ UNCHANGED <<history, redoStack, saveTimeout>>
              /\ last' = Called("add", stamp(op, now), FALSE, 0)
              /\ pre' = <<>>
    /\ rt' = NoRt
    /\ UNCHANGED roomVars
    /\ UNCHANGED saveVars
    /\ UNCHANGED sideVars
    /\ UNCHANGED <<historyIsArray, primary, backup, diskWritable>>

AddOperation(op) == AddOperationUpTo(op, MaxLen)

\* updateOperationById(operation); on a non-array drawingHistory findIndex()
\* (or push(), for an operation without id) throws
UpdateOperationById(op) ==
    /\ (op.id # NoId /\ findIndex(history, op.id) > 0) \/ Len(history) < MaxLen
    /\ \E now \in NowFor(op) :
         IF historyIsArray
         THEN LET s == updateOperationById(mem, op, now)
                  index == IF op.id = NoId THEN 0 ELSE findIndex(history, op.id)
              IN /\ history' = s.h
                 /\ redoStack' = s.r
                 /\ saveTimeout' = s.t
                 /\ last' = [Called("update", op, TRUE, index) EXCEPT !.dropped = Len(redoStack)]
                 /\ pre' = history
         ELSE /\ UNCHANGED <<history, redoStack, saveTimeout>>
              /\ last' = Called("update", op, FALSE, 0)
              /\ pre' = <<>>
    /\ rt' = NoRt
    /\ UNCHANGED roomVars
    /\ UNCHANGED saveVars
    /\ UNCHANGED sideVars
    /\ UNCHANGED <<historyIsArray, primary, backup, diskWritable>>

\* undo(); on a non-array drawingHistory length is undefined and pop() throws
Undo ==
    /\ IF historyIsArray /\ Len(history) > 0
       THEN LET s == undo(mem)
            IN /\ history' = s.h
               /\ redoStack' = s.r
               /\ saveTimeout' = s.t
               /\ last' = Called("undo", history[Len(history)], TRUE, 0)
               /\ rt' = [phase |-> "undone", h |-> history, r |-> redoStack]
       ELSE /\ UNCHANGED <<history, redoStack, saveTimeout>>
            /\ last' = Called("undo", NoOp, FALSE, 0)
            /\ rt' = NoRt
    /\ pre' = <<>>
    /\ UNCHANGED roomVars
    /\ UNCHANGED saveVars
    /\ UNCHANGED sideVars
    /\ UNCHANGED <<historyIsArray, primary, backup, diskWritable>>

\* redo(); the redo stack is empty whenever drawingHistory is not an array
Redo ==
    /\ IF Len(redoStack) > 0
       THEN LET s == redo(mem)
            IN /\ history' = s.h
               /\ redoStack' = s.r
               /\ saveTimeout' = s.t
               /\ last' = Called("redo", redoStack[Len(redoStack)], TRUE, 0)
               /\ rt' = IF rt.phase = "undone" THEN [rt EXCEPT !.phase = "redone"] ELSE NoRt
       ELSE /\ UNCHANGED <<history, redoStack, saveTimeout>>
            /\ last' = Called("redo", NoOp, FALSE, 0)
            /\ rt' = NoRt
    /\ pre' = <<>>
    /\ UNCHANGED roomVars
    /\ UNCHANGED saveVars
    /\ UNCHANGED sideVars
    /\ UNCHANGED <<historyIsArray, primary, backup, diskWritable>>

\* clear(): empties both and saves at once; the pending timer is left alone
Clear ==
    /\ history' = <<>>
    /\ historyIsArray' = TRUE
    /\ redoStack' = <<>>
    /\ primary' = saveToDisk(<<>>, TRUE, primary, backup, diskWritable).primary
    /\ backup' = saveToDisk(<<>>, TRUE, primary, backup, diskWritable).backup
    /\ last' = Called("clear", NoOp, TRUE, 0)
    /\ pre' = <<>>
    /\ rt' = NoRt
    /\ UNCHANGED roomVars
    /\ UNCHANGED saveVars
    /\ UNCHANGED sideVars
    /\ UNCHANGED <<saveTimeout, diskWritable>>

\* the timer set by debouncedSave fires: saveToDisk()
SaveTimerFires ==
    /\ saveTimeout
    /\ saveTimeout' = FALSE
    /\ primary' = saveToDisk(history, historyIsArray, primary, backup, diskWritable).primary
    /\ backup' = saveToDisk(history, historyIsArray, primary, backup, diskWritable).backup
    /\ last' = Called("save", NoOp, TRUE, 0)
    /\ pre' = <<>>
    /\ UNCHANGED roomVars
    /\ UNCHANGED saveVars
    /\ UNCHANGED sideVars
    /\ UNCHANGED <<history, historyIsArray, redoStack, diskWritable, rt>>

\* the server process is restarted and the room is joined again:
\* new DrawingState(roomName), whose constructor calls loadFromDisk()
Restart ==
    /\ history' = loadFromDisk(primary, backup).h
    /\ historyIsArray' = loadFromDisk(primary, backup).isArray
    /\ redoStack' = <<>>
    /\ saveTimeout' = FALSE
    /\ last' = [Called("load", NoOp, TRUE, 0) EXCEPT
                    !.prev = IF last.kind \in {"save", "clear"} THEN last.kind ELSE "other"]
    /\ pre' = IF last.kind \in {"save", "clear"} THEN history ELSE <<>>
    /\ rt' = NoRt
    /\ UNCHANGED roomVars
    /\ UNCHANGED saveVars
    /\ UNCHANGED sideVars
    /\ UNCHANGED <<primary, backup, diskWritable>>

\* the primary file becomes unreadable or unparsable (the failure the
\* catch block of loadFromDisk recovers from)
PrimaryCorrupted ==
    /\ primary.kind \in {"array", "notarray"}
    /\ primary' = Corrupt
    /\ last' = Called("corrupt", NoOp, TRUE, 0)
    /\ pre' = <<>>
    /\ UNCHANGED roomVars
    /\ UNCHANGED saveVars
    /\ UNCHANGED sideVars
    /\ UNCHANGED <<history, historyIsArray, redoStack, saveTimeout, backup, diskWritable, rt>>

\* the calls on one DrawingState, and its save timer
LogActions(inputs) ==
    \/ \E op \in inputs : AddOperation(op)
    \/ \E op \in inputs : UpdateOperationById(op)
    \/ Undo
    \/ Redo
    \/ Clear
    \/ SaveTimerFires

\* In-memory behaviour of one DrawingState for every operation of Ops, on a
\* data directory that refuses writes
LogInit == LogStart(FALSE, LegacySample)
LogNext == LogActions(Ops)
SpecLog == LogInit /\ [][LogNext]_vars

\* Memory and files together, for the operations of DiskOps
DiskInit == LogStart(TRUE, LegacyFiles)
DiskNext ==
    \/ LogActions(DiskOps)
    \/ Restart
    \/ PrimaryCorrupted
SpecDisk == DiskInit /\ [][DiskNext]_vars

\* A new room with no file, and addOperation calls only
AddInit ==
    /\ primary = Absent
    /\ backup = Absent
    /\ diskWritable = TRUE
    /\ history = loadFromDisk(primary, backup).h
    /\ historyIsArray = loadFromDisk(primary, backup).isArray
    /\ redoStack = <<>>
    /\ saveTimeout = FALSE
    /\ last = Called("load", NoOp, TRUE, 0)
    /\ pre = <<>>
    /\ rt = NoRt
    /\ RoomStart
    /\ SaveStart
AddNext == \E op \in Ops : AddOperationUpTo(op, MaxAdds)
SpecAdd == AddInit /\ [][AddNext]_vars

\* A room constructed over any pair of files found in the data directory,
\* constructed again after a restart or after the primary file went bad
LoadInit ==
    /\ primary \in LegacyFiles
    /\ backup \in LegacyFiles
    /\ diskWritable = TRUE
    /\ history = loadFromDisk(primary, backup).h
    /\ historyIsArray = loadFromDisk(primary, backup).isArray
    /\ redoStack = <<>>
    /\ saveTimeout = FALSE
    /\ last = Called("load", NoOp, TRUE, 0)
    /\ pre = <<>>
    /\ rt = NoRt
    /\ RoomStart
    /\ SaveStart
LoadNext ==
    \/ Restart
    \/ PrimaryCorrupted
SpecLoad == LoadInit /\ [][LoadNext]_vars

\* ------------------------------------------------------------------------
\* DrawingState: getHistory() and what its caller does with the array
\* ------------------------------------------------------------------------
\* an element of the returned array: the object at position ref of
\* drawingHistory, or (ref 0) an object own of the caller's
\* "[...this.drawingHistory]": a new array that holds the same objects
getHistory(h) == [i \in 1..Len(h) |-> [ref |-> i, own |-> NoOp]]

Reverse(t) == [i \in 1..Len(t) |-> t[Len(t) + 1 - i]]

CallerFrame ==
    /\ UNCHANGED <<historyIsArray, redoStack, saveTimeout, primary, backup, diskWritable,
                   pre, rt>>
    /\ UNCHANGED roomVars
    /\ UNCHANGED saveVars
    /\ UNCHANGED <<roomList, elsewhere, window, old, client>>

\* getHistory()
GetHistory ==
    /\ snapshot' = [taken |-> TRUE, items |-> getHistory(history)]
    /\ last' = Called("getHistory", NoOp, TRUE, 0)
    /\ UNCHANGED history
    /\ CallerFrame

\* the caller pushes an object of its own
CallerPush(op) ==
    /\ snapshot.taken
    /\ Len(snapshot.items) <= MaxLen
    /\ snapshot' = [snapshot EXCEPT !.items = Append(@, [ref |-> 0, own |-> op])]
    /\ last' = Called("caller:push", op, TRUE, 0)
    /\ UNCHANGED history
    /\ CallerFrame

\* the caller pops
CallerPop ==
    /\ snapshot.taken
    /\ snapshot.items # <<>>
    /\ snapshot' = [snapshot EXCEPT !.items = SubSeq(@, 1, Len(@) - 1)]
    /\ last' = Called("caller:pop", NoOp, TRUE, 0)
    /\ UNCHANGED history
    /\ CallerFrame

\* the caller reverses the array
CallerReverse ==
    /\ snapshot.taken
    /\ Len(snapshot.items) >= 2
    /\ snapshot' = [snapshot EXCEPT !.items = Reverse(@)]
    /\ last' = Called("caller:reverse", NoOp, TRUE, 0)
    /\ UNCHANGED history
    /\ CallerFrame

\* the caller assigns to a field of the object at position k of the array:
\* an object of drawingHistory is the log's object too
CallerSetField(k, v) ==
    /\ snapshot.taken
    /\ k \in 1..Len(snapshot.items)
    /\ LET item == snapshot.items[k]
       IN IF item.ref > 0
          THEN /\ history' = [history EXCEPT ![item.ref].payload = v]
               /\ UNCHANGED sideVars
          ELSE /\ snapshot' = [snapshot EXCEPT !.items[k].own.payload = v]
               /\ UNCHANGED history
    /\ last' = Called("caller:set", NoOp, TRUE, k)
    /\ CallerFrame

\* One log loaded from a file, and a caller of getHistory() that changes
\* what it was given
SnapshotInit == LogStart(TRUE, LegacyFiles)
SnapshotNext ==
    \/ GetHistory
    \/ \E op \in DiskOps : CallerPush(op)
    \/ CallerPop
    \/ CallerReverse
    \/ \E k \in 1..(MaxLen + 1), v \in Payloads : CallerSetField(k, v)
SpecSnapshot == SnapshotInit /\ [][SnapshotNext]_vars

\* ------------------------------------------------------------------------
\* RoomManager.getRoomList over room names as typed
\* ------------------------------------------------------------------------
\* a room name is the sequence of its characters
DirNames == {<<"a">>, <<"a", " ">>, <<"a", "_">>}

\* the characters of the class [a-zA-Z0-9_-]
SafeChars == {"a", "_"}

\* sanitizeRoomName(name): name.replace(/[^a-zA-Z0-9_-]/g, '_')
sanitizeRoomName(name) ==
    [i \in 1..Len(name) |-> IF name[i] \in SafeChars THEN name[i] ELSE "_"]

\* a file of the room-data directory: `${base}${ext}`
DirFile(base, ext) == [base |-> base, ext |-> ext]

\* filePath of the DrawingState of a room
filePath(roomName) == DirFile(sanitizeRoomName(roomName), ".json")

\* getAllRooms(): the files that end in .json, without the .json
getAllRooms(files) == {f.base : f \in {g \in files : g.ext = ".json"}}

\* roomMap.set(key, entry)
roomMapSet(roomMap, entry) == {e \in roomMap : e.name # entry.name} \cup {entry}

RECURSIVE roomMapSetAll(_, _)
roomMapSetAll(roomMap, entries) ==
    IF entries = {} THEN roomMap
    ELSE LET e == CHOOSE x \in entries : TRUE
         IN roomMapSetAll(roomMapSet(roomMap, e), entries \ {e})

\* getRoomList() when the cache is empty or older than 5 s
getRoomList(live, files) ==
    LET stored == {[name |-> n, userCount |-> 0] : n \in getAllRooms(files)}
        now == {[name |-> r.name, userCount |-> r.users] : r \in live}
    IN roomMapSetAll(roomMapSetAll({}, stored), now)

DirectoryFrame ==
    /\ UNCHANGED logVars
    /\ UNCHANGED roomVars
    /\ UNCHANGED saveVars
    /\ UNCHANGED <<snapshot, elsewhere, window, old, client>>

IsLive(n) == \E r \in roomList.live : r.name = n

\* joinRoom(socket, roomName, user) of a room name as typed
NamedJoin(n) ==
    /\ \A r \in roomList.live : r.name = n => r.users < MaxMembers
    /\ roomList' =
           [roomList EXCEPT !.live =
               IF IsLive(n)
               THEN {IF r.name = n THEN [r EXCEPT !.users = @ + 1] ELSE r : r \in @}
               ELSE @ \cup {[name |-> n, users |-> 1]}]
    /\ DirectoryFrame

\* leaveRoom(socket)
NamedLeave(n) ==
    /\ \E r \in roomList.live : r.name = n /\ r.users > 0
    /\ roomList' =
           [roomList EXCEPT !.live =
               {IF r.name = n THEN [r EXCEPT !.users = @ - 1] ELSE r : r \in @}]
    /\ DirectoryFrame

\* the timer of checkEmptyRoom fires on a room that is still empty
NamedRemove(n) ==
    /\ \E r \in roomList.live : r.name = n /\ r.users = 0
    /\ roomList' = [roomList EXCEPT !.live = {r \in @ : r.name # n}]
    /\ DirectoryFrame

\* saveToDisk() of a live room: the backup copy when the file exists, then the file
NamedSave(n) ==
    /\ IsLive(n)
    /\ roomList' =
           [roomList EXCEPT !.files =
               @ \cup {filePath(n)}
                 \cup (IF filePath(n) \in @
                       THEN {DirFile(sanitizeRoomName(n), ".json.backup")} ELSE {})]
    /\ DirectoryFrame

\* getRoomList()
ListRooms ==
    /\ roomList' = [roomList EXCEPT !.list = getRoomList(roomList.live, roomList.files)]
    /\ DirectoryFrame

DirectoryInit == LogStart(TRUE, {Absent})

DirectoryNext ==
    \/ \E n \in DirNames : NamedJoin(n)
    \/ \E n \in DirNames : NamedLeave(n)
    \/ \E n \in DirNames : NamedRemove(n)
    \/ \E n \in DirNames : NamedSave(n)
    \/ ListRooms

SpecDirectory == DirectoryInit /\ [][DirectoryNext]_vars

\* ------------------------------------------------------------------------
\* DrawingState: a save as the sequence of its file calls
\* ------------------------------------------------------------------------
\* saveToDisk() is entered: nothing is written yet
Entered(kind) ==
    [pc |-> "copy", kind |-> kind, from |-> primary, backupFrom |-> backup,
     to |-> serialized(history', historyIsArray'), h |-> history', r |-> redoStack',
     result |-> "none", afterFailure |-> saving.result = "failed"]

\* the call ends: the rename was made ("done") or the catch block logged the
\* error of a step ("failed")
Ended(result) == [saving EXCEPT !.pc = "idle", !.result = result]

\* the calls on the log are made between saves: the process has one thread
IdleAdd(op) == saving.pc = "idle" /\ AddOperation(op)
IdleUndo == saving.pc = "idle" /\ Undo

\* the timer of debouncedSave fires and saveToDisk() is entered
SaveBegins ==
    /\ saving.pc = "idle"
    /\ saveTimeout
    /\ saveTimeout' = FALSE
    /\ UNCHANGED <<history, historyIsArray, redoStack>>
    /\ saving' = Entered("save")
    /\ last' = Called("save", NoOp, TRUE, 0)
    /\ pre' = <<>>
    /\ UNCHANGED <<primary, backup, diskWritable, rt, tmp, saveClock>>
    /\ UNCHANGED roomVars
    /\ UNCHANGED sideVars

\* clear() empties the log and enters saveToDisk()
ClearBegins ==
    /\ saving.pc = "idle"
    /\ history' = <<>>
    /\ historyIsArray' = TRUE
    /\ redoStack' = <<>>
    /\ saving' = Entered("clear")
    /\ last' = Called("clear", NoOp, TRUE, 0)
    /\ pre' = <<>>
    /\ rt' = NoRt
    /\ UNCHANGED <<saveTimeout, primary, backup, diskWritable, tmp, saveClock>>
    /\ UNCHANGED roomVars
    /\ UNCHANGED sideVars

\* the files after a step: f when it succeeded, one of torn when it threw
StepTo(f, torn, next) ==
    \E ok \in BOOLEAN :
        \E g \in (IF ok THEN {f} ELSE torn) :
            /\ primary' = g.primary
            /\ backup' = g.backup
            /\ tmp' = g.tmp
            /\ saving' = IF ok THEN next ELSE Ended("failed")
            /\ last' = [last EXCEPT !.ok = TRUE]

\* existsSync and copyFileSync
CopyStep ==
    /\ saving.pc = "copy"
    /\ StepTo(copyStep(roomFiles), {roomFiles, tornCopy(roomFiles)},
              [saving EXCEPT !.pc = "write"])
    /\ UNCHANGED <<history, historyIsArray, redoStack, saveTimeout, diskWritable, pre, rt,
                   saveClock>>
    /\ UNCHANGED roomVars
    /\ UNCHANGED sideVars

\* JSON.stringify and writeFileSync
WriteStep ==
    /\ saving.pc = "write"
    /\ StepTo(writeStep(roomFiles, saving.to), {roomFiles, tornWrite(roomFiles)},
              [saving EXCEPT !.pc = "rename"])
    /\ UNCHANGED <<history, historyIsArray, redoStack, saveTimeout, diskWritable, pre, rt,
                   saveClock>>
    /\ UNCHANGED roomVars
    /\ UNCHANGED sideVars

\* renameSync
RenameStep ==
    /\ saving.pc = "rename"
    /\ StepTo(renameStep(roomFiles), {roomFiles}, Ended("done"))
    /\ UNCHANGED <<history, historyIsArray, redoStack, saveTimeout, diskWritable, pre, rt,
                   saveClock>>
    /\ UNCHANGED roomVars
    /\ UNCHANGED sideVars

\* the process stops, possibly in the middle of the file call it was making,
\* and is started again: the room's log is loaded from the files
Crash ==
    \E torn \in BOOLEAN :
        LET f == IF torn /\ saving.pc = "copy" THEN tornCopy(roomFiles)
                 ELSE IF torn /\ saving.pc = "write" THEN tornWrite(roomFiles)
                 ELSE roomFiles
        IN /\ primary' = f.primary
           /\ backup' = f.backup
           /\ tmp' = f.tmp
           /\ history' = loadFromDisk(f.primary, f.backup).h
           /\ historyIsArray' = loadFromDisk(f.primary, f.backup).isArray
           /\ redoStack' = <<>>
           /\ saveTimeout' = FALSE
           /\ saving' = [saving EXCEPT !.pc = "idle",
                                       !.result = IF saving.pc = "idle" THEN "none"
                                                  ELSE "crashed:" \o saving.pc]
           /\ last' = Called("load", NoOp, TRUE, 0)
           /\ pre' = <<>>
           /\ rt' = NoRt
           /\ UNCHANGED <<diskWritable, saveClock>>
           /\ UNCHANGED roomVars
           /\ UNCHANGED sideVars

\* Saves taken apart into their file calls, each of which may throw, with a
\* process that may stop between or within them
SaveFiles == {Absent, ArrayFile(stringify(<<[id |-> "b", timestamp |-> 1, payload |-> "p"]>>))}
SaveOps == {[id |-> "a", timestamp |-> 2, payload |-> "p"]}
SaveInit == LogStart(TRUE, SaveFiles)
SaveNext ==
    \/ \E op \in SaveOps : IdleAdd(op)
    \/ IdleUndo
    \/ SaveBegins
    \/ ClearBegins
    \/ CopyStep
    \/ WriteStep
    \/ RenameStep
    \/ Crash
SpecSave == SaveInit /\ [][SaveNext]_vars

\* The same saves for a room whose primary file cannot be parsed while its
\* .backup file is whole: the constructor takes the history from the backup
RecoverInit ==
    /\ primary = Corrupt
    /\ backup \in SaveFiles \ {Absent}
    /\ diskWritable = TRUE
    /\ history = loadFromDisk(primary, backup).h
    /\ historyIsArray = loadFromDisk(primary, backup).isArray
    /\ redoStack = <<>>
    /\ saveTimeout = FALSE
    /\ last = Called("load", NoOp, TRUE, 0)
    /\ pre = <<>>
    /\ rt = NoRt
    /\ RoomStart
    /\ SaveStart
SpecRecover == RecoverInit /\ [][SaveNext]_vars

\* ------------------------------------------------------------------------
\* DrawingState: the save timer on the clock
\* ------------------------------------------------------------------------
\* addOperation(operation) (update FALSE) or updateOperationById(operation)
\* (update TRUE) at the present second; both end in debouncedSave()
TimedMutation(op, update) ==
    /\ saveClock.calls < MaxAdds
    /\ Len(history) < MaxLen \/ (update /\ findIndex(history, op.id) > 0)
    /\ \E now \in NowFor(op) :
         LET s == IF update THEN updateOperationById(mem, op, now)
                            ELSE addOperation(mem, op, now)
         IN /\ history' = s.h
            /\ redoStack' = s.r
            /\ saveTimeout' = s.t
            /\ last' = Called(IF update THEN "update" ELSE "add", op, TRUE, 0)
    /\ saveClock' = [saveClock EXCEPT !.timers = debouncedSave(@),
                                      !.since = 0,
                                      !.pending = Min(2, @ + 1),
                                      !.calls = @ + 1]
    /\ pre' = <<>>
    /\ rt' = NoRt
    /\ UNCHANGED <<historyIsArray, primary, backup, diskWritable, tmp, saving>>
    /\ UNCHANGED roomVars
    /\ UNCHANGED sideVars

TimedAdd(op) == TimedMutation(op, FALSE)
TimedUpdate(op) == TimedMutation(op, TRUE)

\* a timer of debouncedSave is due: saveToDisk()
TimedSaveFires ==
    /\ \E i \in 1..Len(saveClock.timers) :
         /\ saveClock.timers[i] = 0
         /\ saveClock' = [saveClock EXCEPT !.timers = RemoveAt(@, i),
                                           !.pending = 0,
                                           !.quiet = saveClock.since,
                                           !.covered = saveClock.pending]
    /\ saveTimeout' = (Len(saveClock.timers) > 1)
    /\ primary' = saveToDisk(history, historyIsArray, primary, backup, diskWritable).primary
    /\ backup' = saveToDisk(history, historyIsArray, primary, backup, diskWritable).backup
    /\ last' = Called("save", NoOp, TRUE, 0)
    /\ pre' = <<>>
    /\ UNCHANGED <<history, historyIsArray, redoStack, diskWritable, rt, tmp, saving>>
    /\ UNCHANGED roomVars
    /\ UNCHANGED sideVars

\* one second passes; a timer that is due fires before the clock moves on
SaveTick ==
    /\ \A i \in 1..Len(saveClock.timers) : saveClock.timers[i] > 0
    /\ saveClock' = [saveClock EXCEPT
                        !.timers = [i \in 1..Len(@) |-> @[i] - 1],
                        !.since = Min(SaveDebounce, @ + 1)]
    /\ last' = Called("tick", NoOp, TRUE, 0)
    /\ pre' = <<>>
    /\ UNCHANGED <<history, historyIsArray, redoStack, saveTimeout, primary, backup,
                   diskWritable, rt, tmp, saving>>
    /\ UNCHANGED roomVars
    /\ UNCHANGED sideVars

\* The save timer of one log on a disk that takes every write: at most
\* MaxAdds calls of add and updateById, at any second; a call may also arrive
\* in the second the timer is due, before its callback runs
SaveTimerInit == LogStart(TRUE, SaveFiles)
SaveTimerNext ==
    \/ \E op \in DiskOps : TimedAdd(op)
    \/ \E op \in DiskOps : TimedUpdate(op)
    \/ TimedSaveFires
    \/ SaveTick
SpecSaveTimer == SaveTimerInit /\ [][SaveTimerNext]_vars
SpecSaveTimerFair == SpecSaveTimer /\ WF_vars(SaveTick) /\ WF_vars(TimedSaveFires)

RoomInit ==
    /\ RoomStart
    /\ primary = Absent
    /\ backup = Absent
    /\ diskWritable = TRUE
    /\ history = <<>>
    /\ historyIsArray = TRUE
    /\ redoStack = <<>>
    /\ saveTimeout = FALSE
    /\ last = Called("none", NoOp, TRUE, 0)
    /\ pre = <<>>
    /\ rt = NoRt
    /\ SaveStart

\* connections, disconnections and the timers that change the room map
RoomActions(sockets) ==
    \/ \E s \in sockets : RejectConnection(s)
    \/ \E s \in sockets, roomName \in RoomNames, tok \in Tokens :
           HandleConnection(s, roomName, tok)
    \/ \E s \in sockets : Disconnect(s)
    \/ GraceTimerFires
    \/ EmptyRoomTimerFires

\* Membership of one RoomManager for MaxSockets connections.  The timer of
\* debouncedBroadcastRoomList is set but its callback, which only emits the
\* room list, is left to SpecRoomList.
MembersNext == RoomActions(SocketIds)
SpecMembers == RoomInit /\ [][MembersNext]_vars

\* The same RoomManager with the clock and the room list timer, for the
\* first MaxListSockets connections
RoomListNext ==
    \/ RoomActions(1..MaxListSockets)
    \/ RoomListTimerFires
    \/ Tick
SpecRoomList == RoomInit /\ [][RoomListNext]_vars

\* Membership for the first MaxListSockets connections, where the event
\* loop runs the callback of a grace timer that is due
GraceNext == RoomActions(1..MaxListSockets)
SpecGraceFair == RoomInit /\ [][GraceNext]_vars /\ WF_vars(GraceTimerFires)

\* Membership for the first MaxListSockets connections with the 30 s timers
\* of checkEmptyRoom on the clock
WindowNext ==
    \/ \E s \in 1..MaxListSockets, roomName \in RoomNames, tok \in Tokens :
           HandleConnection(s, roomName, tok)
    \/ \E s \in 1..MaxListSockets : Disconnect(s)
    \/ GraceTimerFires
    \/ EmptyRoomTimerDue
    \/ WindowTick
SpecWindow == RoomInit /\ [][WindowNext]_vars

\* Time passes, and the event loop runs the callback of a timer that is due
SpecRoomListFair == SpecRoomList /\ WF_vars(Tick) /\ WF_vars(RoomListTimerFires)


\* ------------------------------------------------------------------------
\* RoomManager: the handlers of the drawing events of one room
\* ------------------------------------------------------------------------
\* the room whose DrawingState the log variables are
Coords == {"startX", "startY", "endX", "endY"}

\* what arrives with client:operation:add, as far as the handler reads it:
\* points is "none" (not an array), "empty" or "some"; color and shape are
\* strings, "" when missing; width is "number" or "string" by its typeof;
\* numeric is the set of coordinates whose typeof is 'number'
Stroke(id, timestamp) ==
    [isObject |-> TRUE, type |-> "stroke", points |-> "some", color |-> "red",
     width |-> "number", shape |-> "", numeric |-> {}, id |-> id, timestamp |-> timestamp]

Shape(id, timestamp) ==
    [isObject |-> TRUE, type |-> "shape", points |-> "none", color |-> "red",
     width |-> "number", shape |-> "rect", numeric |-> Coords, id |-> id,
     timestamp |-> timestamp]

ValidInputs == {Stroke("a", 1), Shape("a", 2), Stroke(NoId, 0)}

InvalidInputs ==
    {[Stroke("a", 1) EXCEPT !.points = x] : x \in {"none", "empty"}}
    \cup {[Stroke("a", 1) EXCEPT !.color = ""], [Stroke("a", 1) EXCEPT !.width = "string"]}
    \cup {[Shape("a", 1) EXCEPT !.numeric = Coords \ {c}] : c \in Coords}
    \cup {[Shape("a", 1) EXCEPT !.shape = ""], [Shape("a", 1) EXCEPT !.color = ""],
          [Shape("a", 1) EXCEPT !.width = "string"]}
    \cup {[Stroke("a", 1) EXCEPT !.type = "text"], [Stroke("a", 1) EXCEPT !.isObject = FALSE]}

\* validateOperation without the test of the width
validateOperationNoWidth(operation) ==
    /\ operation.isObject
    /\ CASE operation.type = "stroke" ->
                /\ operation.points = "some"
                /\ operation.color # ""
         [] operation.type = "shape" ->
                /\ operation.shape # ""
                /\ operation.numeric = Coords
                /\ operation.color # ""
         [] OTHER -> FALSE

validateOperation(operation) ==
    /\ operation.isObject
    /\ CASE operation.type = "stroke" ->
                /\ operation.points = "some"
                /\ operation.color # ""
                /\ operation.width = "number"
         [] operation.type = "shape" ->
                /\ operation.shape # ""
                /\ operation.numeric = Coords
                /\ operation.color # ""
                /\ operation.width = "number"
         [] OTHER -> FALSE

\* `${Date.now()}_${random}`: an id no stored operation has
GenIds == {"g1"}
IdsOf(h) == {h[i].id : i \in 1..Len(h)}
FreshIds == GenIds \ (IdsOf(history) \cup IdsOf(redoStack))

\* the operation the handler stores, with its id and timestamp filled in
Stored(operation, id, now) ==
    [id |-> id,
     timestamp |-> IF operation.timestamp = 0 THEN now ELSE operation.timestamp,
     payload |-> operation.type]

\* a handler that adds whatever it is given
storeAlwaysAdds(st, op, now) == addOperation(st, op, now)

\* "existingOp ? room.state.updateOperationById(operation)
\*             : room.state.addOperation(operation)"
store(st, op, now) ==
    IF findIndex(st.h, op.id) > 0 THEN updateOperationById(st, op, now)
    ELSE addOperation(st, op, now)

\* io.to(roomName).emit('server:history:load', h)
HistoryMsg(scope, roomName, h) ==
    [ev |-> "server:history:load", scope |-> scope, room |-> roomName, sock |-> 0,
     about |-> 0, members |-> {}, history |-> h]

\* a clear that is announced to the other members only
clearNoticesToOthers(roomName, s) ==
    <<HistoryMsg("others", roomName, <<>>),
      Msg("server:canvas:cleared", "others", roomName, s, s, {})>>

clearNotices(roomName, s) ==
    <<HistoryMsg("room", roomName, <<>>),
      Msg("server:canvas:cleared", "room", roomName, s, s, {})>>

\* the operation as the handler emits it: "operation.userId = socket.id";
\* the log is modelled with its id, timestamp and payload
Tagged(op, s) ==
    [id |-> op.id, timestamp |-> op.timestamp, payload |-> op.payload, userId |-> s]

\* an acknowledgement that leaves the submitter out
addNoticesToOthers(roomName, s, op) ==
    <<[ev |-> "server:operation:add", scope |-> "others", room |-> roomName, sock |-> s,
       about |-> s, members |-> {}, op |-> Tagged(op, s)]>>
    \o (IF op.payload = "shape"
        THEN <<Msg("server:shape:preview_clear", "others", roomName, s, s, {})>>
        ELSE <<>>)

\* the emits of an accepted client:operation:add
addNotices(roomName, s, op) ==
    <<[ev |-> "server:operation:add", scope |-> "room", room |-> roomName, sock |-> s,
       about |-> s, members |-> {}, op |-> Tagged(op, s)]>>
    \o (IF op.payload = "shape"
        THEN <<Msg("server:shape:preview_clear", "others", roomName, s, s, {})>>
        ELSE <<>>)

\* handlers that are bound to the log of LogRoom whatever room was joined
InLogRoomAny(s) == sock[s].state = "connected"

\* setupSocketHandlers(socket, roomName, user): "room = this.rooms.get(roomName)"
InLogRoom(s) ==
    /\ sock[s].state = "connected"
    /\ sock[s].room = LogRoom
    /\ ~(old.made /\ s < old.before)

InOtherRoom(s) == sock[s].state = "connected" /\ sock[s].room = OtherRoom

\* what is recorded of a client:operation:add: what arrived (raw), what was
\* stored (op), whether it was stored, and where its id was found
Submitted(raw, op, ok, index) ==
    [kind |-> "submit", op |-> op, ok |-> ok, index |-> index, dropped |-> 0,
     prev |-> "none", raw |-> raw]

\* socket.on('client:operation:add')
OnOperationAdd(s, operation) ==
    /\ InLogRoom(s)
    /\ IF ~validateOperation(operation)
       THEN /\ out' = <<Msg("server:error", "socket", "", s, 0, {})>>
            /\ last' = Submitted(operation, NoOp, FALSE, 0)
            /\ pre' = history
            /\ UNCHANGED <<history, redoStack, saveTimeout>>
       ELSE \E now \in NowFor(operation),
               id \in (IF operation.id = NoId THEN FreshIds ELSE {operation.id}) :
              LET given == Stored(operation, id, now)
                  st == store(mem, given, now)
                  \* updateOperationById assigns the timestamp it keeps to
                  \* the object the handler emits afterwards
                  op == st.h[findIndex(st.h, id)]
              IN IF ~historyIsArray
                 THEN \* push or findIndex throws: the catch block answers
                      /\ out' = <<Msg("server:error", "socket", "", s, 0, {})>>
                      /\ last' = Submitted(operation, NoOp, FALSE, 0)
                      /\ pre' = history
                      /\ UNCHANGED <<history, redoStack, saveTimeout>>
                 ELSE /\ Len(st.h) <= MaxLen
                      /\ history' = st.h
                      /\ redoStack' = st.r
                      /\ saveTimeout' = st.t
                      /\ out' = addNotices(LogRoom, s, op)
                      /\ last' = Submitted(operation, op, TRUE, findIndex(history, id))
                      /\ pre' = history
    /\ lastH' = Ran("operation:add", s, LogRoom)
    /\ rt' = NoRt
    /\ UNCHANGED <<historyIsArray, primary, backup, diskWritable>>
    /\ UNCHANGED saveVars
    /\ UNCHANGED sideVars
    /\ UNCHANGED <<sock, rooms, userSessions, graceTimers, emptyTimers, listTimers,
                   sinceTrigger, sinceBroadcast, uncovered, leftCount>>

\* io.to(roomName).emit(ev, {operationId, userId, userName})
OpNotice(ev, roomName, s, operationId) ==
    [ev |-> ev, scope |-> "room", room |-> roomName, sock |-> s, about |-> s,
     members |-> {}, operationId |-> operationId]

\* an undo handler that sends the history it found, not the one it left
undoNoticesBefore(ev, roomName, s, before, after, op) ==
    <<HistoryMsg("room", roomName, before), OpNotice(ev, roomName, s, op.id)>>

\* the emits of a successful client:undo or client:redo
undoNotices(ev, roomName, s, before, after, op) ==
    <<HistoryMsg("room", roomName, after), OpNotice(ev, roomName, s, op.id)>>

\* what is recorded of the client:undo requests that follow each other with
\* no other call on the log in between: the history and redo stack they
\* started from, how many they are (counted up to MaxLen + 1), and the last
\* history sent to the room
UndoRun(success, after) ==
    IF rt.phase = "undos"
    THEN [rt EXCEPT !.k = Min(MaxLen + 1, @ + 1),
                    !.load = IF success THEN [sent |-> TRUE, h |-> after] ELSE @]
    ELSE [phase |-> "undos", h |-> history, r |-> redoStack, k |-> 1,
          load |-> [sent |-> success, h |-> IF success THEN after ELSE <<>>]]

\* socket.on('client:undo') (isUndo) and socket.on('client:redo')
OnUndoRedo(s, isUndo) ==
    /\ InLogRoom(s)
    /\ LET st == IF isUndo THEN undo(mem) ELSE redo(mem)
           success == historyIsArray /\ (IF isUndo THEN history # <<>> ELSE redoStack # <<>>)
           kind == IF isUndo THEN "undo" ELSE "redo"
       IN /\ history' = IF historyIsArray THEN st.h ELSE history
          /\ redoStack' = IF historyIsArray THEN st.r ELSE redoStack
          /\ saveTimeout' = IF historyIsArray THEN st.t ELSE saveTimeout
          /\ out' = IF success
                    THEN undoNotices(IF isUndo THEN "server:operation:undone"
                                               ELSE "server:operation:redone",
                                     LogRoom, s, history, st.h,
                                     IF isUndo THEN history[Len(history)]
                                               ELSE redoStack[Len(redoStack)])
                    ELSE <<Msg("server:error", "socket", "", s, 0, {})>>
          /\ rt' = IF isUndo THEN UndoRun(success, st.h) ELSE NoRt
          /\ last' = Called(kind, NoOp, success, 0)
          /\ lastH' = Ran(kind, s, LogRoom)
    /\ pre' = <<>>
    /\ UNCHANGED <<historyIsArray, primary, backup, diskWritable>>
    /\ UNCHANGED saveVars
    /\ UNCHANGED sideVars
    /\ UNCHANGED <<sock, rooms, userSessions, graceTimers, emptyTimers, listTimers,
                   sinceTrigger, sinceBroadcast, uncovered, leftCount>>

OnUndo(s) == OnUndoRedo(s, TRUE)
OnRedo(s) == OnUndoRedo(s, FALSE)

\* socket.on('client:clear'): room.state.clear(), then the two emits
OnClear(s) ==
    /\ InLogRoom(s)
    /\ history' = <<>>
    /\ historyIsArray' = TRUE
    /\ redoStack' = <<>>
    /\ primary' = saveToDisk(<<>>, TRUE, primary, backup, diskWritable).primary
    /\ backup' = saveToDisk(<<>>, TRUE, primary, backup, diskWritable).backup
    /\ out' = clearNotices(LogRoom, s)
    /\ last' = Called("clear", NoOp, TRUE, 0)
    /\ lastH' = Ran("clear", s, LogRoom)
    /\ pre' = <<>>
    /\ rt' = NoRt
    /\ UNCHANGED <<saveTimeout, diskWritable>>
    /\ UNCHANGED saveVars
    /\ UNCHANGED sideVars
    /\ UNCHANGED <<sock, rooms, userSessions, graceTimers, emptyTimers, listTimers,
                   sinceTrigger, sinceBroadcast, uncovered, leftCount>>

\* the sockets 1 and 2 have joined the room, which had no file, and the room
\* list timer of their connections has fired
RoomOpsInit ==
    /\ sock = [s \in SocketIds |->
                 IF s <= 2
                 THEN [state |-> "connected", room |-> LogRoom, key |-> sessionKey(NoToken, s)]
                 ELSE NewSocket]
    /\ rooms = [r \in RoomNames |->
                  IF r = LogRoom THEN [exists |-> TRUE, users |-> {1, 2}] ELSE NoRoom]
    /\ userSessions = [k \in SessionKeys |->
                         IF k.tok = NoToken /\ k.sid \in {1, 2}
                         THEN [present |-> TRUE, roomName |-> LogRoom, userId |-> k.sid]
                         ELSE NoSession]
    /\ graceTimers = <<>>
    /\ emptyTimers = <<>>
    /\ listTimers = <<>>
    /\ sinceTrigger = Debounce
    /\ sinceBroadcast = 0
    /\ uncovered = 0
    /\ leftCount = [s \in SocketIds |-> 0]
    /\ lastH = Ran("roomList", 0, "")
    /\ out = <<Msg("server:rooms:list", "all", "", 0, 0, {})>>
    /\ primary = Absent
    /\ backup = Absent
    /\ diskWritable = TRUE
    /\ history = <<>>
    /\ historyIsArray = TRUE
    /\ redoStack = <<>>
    /\ saveTimeout = FALSE
    /\ last = Called("load", NoOp, TRUE, 0)
    /\ pre = <<>>
    /\ rt = NoRt
    /\ SaveStart

\* The drawing events of the two members of one room whose log starts empty
RoomOpsNext ==
    \/ \E s \in 1..2, operation \in ValidInputs : OnOperationAdd(s, operation)
    \/ \E s \in 1..2 : OnUndo(s)
    \/ \E s \in 1..2 : OnRedo(s)
    \/ \E s \in 1..2 : OnClear(s)
    \/ SaveTimerFires
SpecRoomOps == RoomOpsInit /\ [][RoomOpsNext]_vars

\* The same room when its members also submit what validateOperation refuses
SubmitInputs == {Stroke("a", 1), Stroke(NoId, 0)} \cup InvalidInputs
SubmitNext ==
    \/ \E s \in 1..2, operation \in SubmitInputs : OnOperationAdd(s, operation)
    \/ \E s \in 1..2 : OnUndo(s)
    \/ SaveTimerFires
SpecSubmit == RoomOpsInit /\ [][SubmitNext]_vars

\* ------------------------------------------------------------------------
\* Two rooms: the handlers of the sockets of OtherRoom, whose log is elsewhere
\* ------------------------------------------------------------------------
memElsewhere ==
    [h |-> elsewhere.history, r |-> elsewhere.redoStack, t |-> elsewhere.saveTimeout]

\* the handlers of OtherRoom leave the log of LogRoom and the room map alone
ElsewhereFrame ==
    /\ UNCHANGED logVars
    /\ UNCHANGED saveVars
    /\ UNCHANGED <<snapshot, roomList, window, old, client>>
    /\ UNCHANGED <<sock, rooms, userSessions, graceTimers, emptyTimers, listTimers,
                   sinceTrigger, sinceBroadcast, uncovered, leftCount>>

\* socket.on('client:operation:add') of a socket of OtherRoom
OnOperationAddElsewhere(s, operation) ==
    /\ InOtherRoom(s)
    /\ IF ~validateOperation(operation)
       THEN /\ out' = <<Msg("server:error", "socket", "", s, 0, {})>>
            /\ UNCHANGED elsewhere
       ELSE \E now \in NowFor(operation),
               id \in (IF operation.id = NoId
                       THEN GenIds \ (IdsOf(elsewhere.history) \cup IdsOf(elsewhere.redoStack))
                       ELSE {operation.id}) :
              LET st == store(memElsewhere, Stored(operation, id, now), now)
                  op == st.h[findIndex(st.h, id)]
              IN /\ Len(st.h) <= MaxLen
                 /\ elsewhere' = [elsewhere EXCEPT !.history = st.h,
                                                   !.redoStack = st.r,
                                                   !.saveTimeout = st.t]
                 /\ out' = addNotices(OtherRoom, s, op)
    /\ lastH' = Ran("operation:add", s, OtherRoom)
    /\ ElsewhereFrame

\* socket.on('client:undo') (isUndo) and socket.on('client:redo') of a socket
\* of OtherRoom
OnUndoRedoElsewhere(s, isUndo) ==
    /\ InOtherRoom(s)
    /\ LET st == IF isUndo THEN undo(memElsewhere) ELSE redo(memElsewhere)
           success == IF isUndo THEN elsewhere.history # <<>>
                      ELSE elsewhere.redoStack # <<>>
       IN /\ elsewhere' = [elsewhere EXCEPT !.history = st.h,
                                            !.redoStack = st.r,
                                            !.saveTimeout = st.t]
          /\ out' = IF success
                    THEN undoNotices(IF isUndo THEN "server:operation:undone"
                                               ELSE "server:operation:redone",
                                     OtherRoom, s, elsewhere.history, st.h,
                                     IF isUndo
                                     THEN elsewhere.history[Len(elsewhere.history)]
                                     ELSE elsewhere.redoStack[Len(elsewhere.redoStack)])
                    ELSE <<Msg("server:error", "socket", "", s, 0, {})>>
    /\ lastH' = Ran(IF isUndo THEN "undo" ELSE "redo", s, OtherRoom)
    /\ ElsewhereFrame

OnUndoElsewhere(s) == OnUndoRedoElsewhere(s, TRUE)
OnRedoElsewhere(s) == OnUndoRedoElsewhere(s, FALSE)

\* socket.on('client:clear') of a socket of OtherRoom
OnClearElsewhere(s) ==
    /\ InOtherRoom(s)
    /\ LET saved == saveToDisk(<<>>, TRUE, elsewhere.primary, elsewhere.backup,
                               diskWritable)
       IN elsewhere' = [elsewhere EXCEPT !.history = <<>>,
                                         !.redoStack = <<>>,
                                         !.primary = saved.primary,
                                         !.backup = saved.backup]
    /\ out' = clearNotices(OtherRoom, s)
    /\ lastH' = Ran("clear", s, OtherRoom)
    /\ ElsewhereFrame

\* the file LogRoom left behind when the server ran before
RoomsFile == ArrayFile(stringify(<<[id |-> "b", timestamp |-> 1, payload |-> "stroke"]>>))

RoomsInputs == {Shape("a", 1)}

\* the server starts: no room in the map, LogRoom with a file, OtherRoom without
RoomsInit ==
    /\ RoomStart
    /\ primary = RoomsFile
    /\ backup = Absent
    /\ diskWritable = TRUE
    /\ history = <<>>
    /\ historyIsArray = TRUE
    /\ redoStack = <<>>
    /\ saveTimeout = FALSE
    /\ last = Called("none", NoOp, TRUE, 0)
    /\ pre = <<>>
    /\ rt = NoRt
    /\ tmp = Absent
    /\ saving = NotSaving(primary, backup)
    /\ saveClock = NoClock
    /\ snapshot = NoSnapshot
    /\ roomList = NoRoomList
    /\ elsewhere = NoLog
    /\ window = NoWindow
    /\ old = NoOld
    /\ client = NoClient

\* Two connections that join either room and draw there
RoomsNext ==
    \/ \E s \in 1..2, roomName \in RoomNames, tok \in Tokens :
           HandleConnection(s, roomName, tok)
    \/ \E s \in 1..2, operation \in RoomsInputs : OnOperationAdd(s, operation)
    \/ \E s \in 1..2 : OnUndo(s)
    \/ \E s \in 1..2 : OnRedo(s)
    \/ \E s \in 1..2 : OnClear(s)
    \/ \E s \in 1..2, operation \in RoomsInputs : OnOperationAddElsewhere(s, operation)
    \/ \E s \in 1..2 : OnUndoElsewhere(s)
    \/ \E s \in 1..2 : OnRedoElsewhere(s)
    \/ \E s \in 1..2 : OnClearElsewhere(s)
SpecRooms == RoomsInit /\ [][RoomsNext]_vars

\* ------------------------------------------------------------------------
\* A room that is removed from the map and created again
\* ------------------------------------------------------------------------
\* the handlers of socket s hold the DrawingState that was removed: the
\* socket connected before the room was created again
BoundToOld(s) ==
    /\ sock[s].state = "connected"
    /\ sock[s].room = LogRoom
    /\ old.made /\ s < old.before

memOld == [h |-> old.history, r |-> old.redoStack, t |-> old.saveTimeout]

\* the timer callback of checkEmptyRoom: this.rooms.delete(roomName) drops
\* the map's reference to the DrawingState and nothing else
Evict ==
    /\ emptyRoomTimer
    /\ old' = IF /\ Head(emptyTimers) = LogRoom
                 /\ checkEmptyRoom(rooms, LogRoom)
                 /\ ~old.evicted.done
              THEN [old EXCEPT !.evicted =
                       [done |-> TRUE, h |-> history, pending |-> saveTimeout]]
              ELSE old

\* handleConnection(socket): when joinRoom makes a new DrawingState for
\* LogRoom, the one that was removed stays with the sockets that hold it
JoinKeeping(s, roomName, tok) ==
    \* a save timer (1 s) that is pending when this connection sets a 30 s
    \* timer fires before that timer: such a connection is taken after it
    /\ saveTimeout => (roomName = LogRoom /\ ~rooms[LogRoom].exists)
    /\ handleConnection(s, Query(roomName, "u", "c", tok))
    /\ IF roomName = LogRoom /\ ~rooms[LogRoom].exists /\ old.evicted.done
       THEN /\ ~old.made
            /\ old' = [old EXCEPT !.made = TRUE,
                                  !.history = history,
                                  !.redoStack = redoStack,
                                  !.saveTimeout = saveTimeout,
                                  !.before = s]
       ELSE old' = old

OldFrame ==
    /\ UNCHANGED <<history, historyIsArray, redoStack, saveTimeout, diskWritable, pre, rt>>
    /\ UNCHANGED saveVars
    /\ UNCHANGED <<snapshot, roomList, elsewhere, window, client>>
    /\ UNCHANGED <<sock, rooms, userSessions, graceTimers, emptyTimers, listTimers,
                   sinceTrigger, sinceBroadcast, uncovered, leftCount>>

\* socket.on('client:operation:add') of a socket that holds the removed
\* DrawingState
OnOperationAddOld(s, operation) ==
    /\ BoundToOld(s)
    /\ validateOperation(operation)
    /\ \E now \in NowFor(operation) :
         LET st == store(memOld, Stored(operation, operation.id, now), now)
             op == st.h[findIndex(st.h, operation.id)]
         IN /\ Len(st.h) <= MaxLen
            /\ old' = [old EXCEPT !.history = st.h, !.redoStack = st.r,
                                  !.saveTimeout = st.t]
            /\ out' = addNotices(LogRoom, s, op)
    /\ lastH' = [Ran("operation:add", s, LogRoom) EXCEPT !.stale = TRUE]
    /\ UNCHANGED <<primary, backup, last>>
    /\ OldFrame

\* socket.on('client:undo') of a socket that holds the removed DrawingState
OnUndoOld(s) ==
    /\ BoundToOld(s)
    /\ LET st == undo(memOld)
       IN /\ old' = [old EXCEPT !.history = st.h, !.redoStack = st.r,
                                !.saveTimeout = st.t]
          /\ out' = IF old.history # <<>>
                    THEN undoNotices("server:operation:undone", LogRoom, s, old.history,
                                     st.h, old.history[Len(old.history)])
                    ELSE <<Msg("server:error", "socket", "", s, 0, {})>>
    /\ lastH' = [Ran("undo", s, LogRoom) EXCEPT !.stale = TRUE]
    /\ UNCHANGED <<primary, backup, last>>
    /\ OldFrame

\* the timer set by debouncedSave of the removed DrawingState fires: its
\* filePath is that of the room
SaveTimerFiresOld ==
    /\ old.made
    /\ old.saveTimeout
    /\ old' = [old EXCEPT !.saveTimeout = FALSE]
    /\ primary' = saveToDisk(old.history, TRUE, primary, backup, diskWritable).primary
    /\ backup' = saveToDisk(old.history, TRUE, primary, backup, diskWritable).backup
    /\ last' = Called("save:old", NoOp, TRUE, 0)
    /\ UNCHANGED <<out, lastH>>
    /\ OldFrame

EvictInputs == {Stroke("a", 1)}

\* Connections that switch rooms within one session, the 30 s timer, and the
\* drawing events of every socket that is still connected.
EvictNext ==
    \/ \E s \in SocketIds, roomName \in RoomNames, tok \in Tokens :
           JoinKeeping(s, roomName, tok)
    \/ Evict
    \/ \E s \in SocketIds, operation \in EvictInputs : OnOperationAdd(s, operation)
    \/ \E s \in SocketIds : OnUndo(s)
    \/ SaveTimerFires
    \/ \E s \in SocketIds, operation \in EvictInputs : OnOperationAddOld(s, operation)
    \/ \E s \in SocketIds : OnUndoOld(s)
    \/ SaveTimerFiresOld
SpecEvict == RoomInit /\ [][EvictNext]_vars

\* ------------------------------------------------------------------------
\* SocketService: reconnection of the client (times in seconds)
\* ------------------------------------------------------------------------
maxReconnectAttempts == 5

\* Math.pow(2, n)
RECURSIVE Pow2(_)
Pow2(n) == IF n <= 0 THEN 1 ELSE 2 * Pow2(n - 1)

ClientRan(kind) ==
    [kind |-> kind, k |-> 0, waited |-> 0, connected |-> FALSE, intended |-> FALSE]

\* connect(roomName, userDetails, sessionId): a new socket, reconnection: false
connect(c) == [c EXCEPT !.isIntentionalDisconnect = FALSE, !.socket = "connecting"]

\* attemptReconnect() without the test of maxReconnectAttempts
attemptReconnectUnlimited(c) ==
    [c EXCEPT !.reconnectAttempts = @ + 1,
              !.reportedLimit = FALSE,
              !.timers = Append(@, [delay |-> c.reconnectDelay * Pow2(c.reconnectAttempts),
                                    waited |-> 0,
                                    k |-> c.reconnectAttempts + 1])]

\* attemptReconnect()
attemptReconnect(c) ==
    IF c.reconnectAttempts >= maxReconnectAttempts
    THEN [c EXCEPT !.error = "Unable to reconnect to server", !.reportedLimit = TRUE]
    ELSE [c EXCEPT !.reconnectAttempts = @ + 1,
                   !.reportedLimit = FALSE,
                   !.timers = Append(@, [delay |-> c.reconnectDelay * Pow2(c.reconnectAttempts),
                                         waited |-> 0,
                                         k |-> c.reconnectAttempts + 1])]

\* socket.on('disconnect', reason)
onDisconnect(c, reason) ==
    IF ~c.isIntentionalDisconnect /\ reason # "io client disconnect"
    THEN attemptReconnect(c)
    ELSE c

ClientFrame ==
    /\ UNCHANGED logVars
    /\ UNCHANGED roomVars
    /\ UNCHANGED saveVars
    /\ UNCHANGED <<snapshot, elsewhere, window, old>>
    /\ roomList' = roomList

\* the application calls connect() once on each SocketService it makes
Connect ==
    /\ client.socket = "null"
    /\ client' = [connect(client) EXCEPT !.lastRun = ClientRan("connect()")]
    /\ ClientFrame

\* socket.on('connect')
OnConnect ==
    /\ client.socket = "connecting"
    /\ client' = [client EXCEPT !.socket = "connected",
                                !.reconnectAttempts = 0,
                                !.reconnectDelay = 1,
                                !.issued = 0,
                                !.lastRun = ClientRan("connect")]
    /\ ClientFrame

\* socket.on('connect_error'); the socket does not retry (reconnection: false)
OnConnectError ==
    /\ client.socket = "connecting"
    /\ LET c == [client EXCEPT !.socket = "closed", !.error = "Connection failed"]
       IN client' = [(IF ~c.isIntentionalDisconnect THEN attemptReconnect(c) ELSE c)
                        EXCEPT !.lastRun = ClientRan("connect_error")]
    /\ ClientFrame

\* the server or the transport ends the connection
OnDisconnect(reason) ==
    /\ client.socket = "connected"
    /\ client' = [onDisconnect([client EXCEPT !.socket = "closed"], reason)
                     EXCEPT !.lastRun = ClientRan("disconnect")]
    /\ ClientFrame

\* disconnect(): socket.disconnect() of a connected socket runs the
\* 'disconnect' listener with the reason 'io client disconnect'
disconnect ==
    /\ client.socket # "null"
    /\ LET c == [client EXCEPT !.isIntentionalDisconnect = TRUE, !.intended = TRUE,
                               !.socket = "closed"]
       IN client' = [(IF client.socket = "connected"
                      THEN onDisconnect(c, "io client disconnect")
                      ELSE c)
                        EXCEPT !.lastRun = ClientRan("disconnect()")]
    /\ ClientFrame

\* the callback of the setTimeout of attemptReconnect
ReconnectTimerFires ==
    /\ \E i \in 1..Len(client.timers) :
         LET t == client.timers[i]
             c == [client EXCEPT !.timers = RemoveAt(@, i)]
             go == ~client.isIntentionalDisconnect
         IN /\ t.waited = t.delay
            /\ client' = [(IF go THEN [connect(c) EXCEPT !.issued = @ + 1] ELSE c)
                             EXCEPT !.lastRun = [kind |-> "timer", k |-> t.k,
                                                 waited |-> t.waited, connected |-> go,
                                                 intended |-> client.intended]]
    /\ ClientFrame

\* one second passes while no timer is due
ClientTick ==
    /\ client.timers # <<>>
    /\ \A i \in 1..Len(client.timers) : client.timers[i].waited < client.timers[i].delay
    /\ client' = [client EXCEPT !.timers =
                     [i \in 1..Len(@) |-> [@[i] EXCEPT !.waited = @ + 1]]]
    /\ ClientFrame

DisconnectReasons == {"transport close", "io server disconnect", "ping timeout"}

ClientNext ==
    \/ Connect
    \/ OnConnect
    \/ OnConnectError
    \/ \E reason \in DisconnectReasons : OnDisconnect(reason)
    \/ disconnect
    \/ ReconnectTimerFires
    \/ ClientTick
SpecClient == RoomInit /\ [][ClientNext]_vars

\* ------------------------------------------------------------------------
\* Properties of DrawingState
\* ------------------------------------------------------------------------
Range(s) == {s[i] : i \in 1..Len(s)}

\* C1: in every reachable state (after any load, add, updateById, undo,
\* redo, clear) history is ordered non-decreasing by timestamp.
C1_HistorySorted == historyIsArray => IsSorted(history)

\* C2: from an empty log and with add calls only, after every add the
\* history is non-decreasing by timestamp, holds the previous operations in
\* their previous relative order plus the new one, and an operation with a
\* smaller timestamp than one added earlier stands before it.
C2_AddKeepsOrder ==
    (last.kind = "add" /\ last.ok) =>
        /\ IsSorted(history)
        /\ Len(history) = Len(pre) + 1
        /\ \E k \in 1..Len(history) :
             /\ history[k] = last.op
             /\ RemoveAt(history, k) = pre
             /\ \A j \in 1..Len(pre) :
                  (last.op.timestamp < pre[j].timestamp) => k <= j

\* an add whose timestamp is smaller than that of an operation added before
\* it: the later arrival stands first
C2_Witness ==
    /\ last.kind = "add" /\ last.ok
    /\ Len(history) = 3
    /\ history[1] = last.op
    /\ history[1].timestamp < history[2].timestamp

\* C4: undo() directly followed by redo() leaves history and redoBuffer as
\* they were before the undo.
C4_UndoRedoRoundTrip ==
    (rt.phase = "redone") => (history = rt.h /\ redoStack = rt.r)

\* C5: after a successful add or updateById (replacing or falling back to
\* add) the redo buffer is empty, and a redo() on an empty redo buffer fails
\* and leaves history unchanged.
C5_AfterMutationRedoEmpty ==
    (last.kind \in {"add", "update"} /\ last.ok) => redoStack = <<>>

C5_RedoOnEmptyFails ==
    (redoStack = <<>> /\ last'.kind = "redo") =>
        (~last'.ok /\ history' = history /\ redoStack' = <<>>)

C5_RedoInvalidated == [](C5_AfterMutationRedoEmpty) /\ [][C5_RedoOnEmptyFails]_vars

\* an update in place that dropped a non-empty redo buffer
C5_Witness ==
    /\ last.kind = "update" /\ last.ok /\ last.index > 0
    /\ last.dropped > 0
    /\ redoStack = <<>>

\* what an update in place leaves alone: the length, the index and id of
\* the addressed operation, every other operation; it stores the submitted
\* payload
UpdateFrame ==
    /\ Len(history) = Len(pre)
    /\ history[last.index].id = pre[last.index].id
    /\ history[last.index].payload = last.op.payload
    /\ \A j \in 1..Len(pre) : j # last.index => history[j] = pre[j]

UpdatedInPlace == last.kind = "update" /\ last.ok /\ last.index > 0

C7_SaveLoadRoundTrip ==
    (last.kind = "load" /\ last.prev \in {"save", "clear"} /\ diskWritable) =>
        (historyIsArray /\ Range(history) = Range(pre))

\* a load after a timer save of two operations that were out of order in
\* memory: the same operations come back, in another order
C7_Witness ==
    /\ last.kind = "load" /\ last.prev = "save" /\ diskWritable
    /\ Len(pre) = 2
    /\ history # pre

\* ------------------------------------------------------------------------
\* Properties of RoomManager
\* ------------------------------------------------------------------------
\* the ids in room.users of every room
Members == UNION {rooms[r].users : r \in RoomNames}

\* the sessions stored for a room, by the socket id they hold
SessionsOf(r) ==
    {userSessions[k].userId :
        k \in {x \in SessionKeys : userSessions[x].present /\ userSessions[x].roomName = r}}

\* C3: after any interleaving of connects, reconnects, room switches,
\* disconnects and grace timers, the members of a room are exactly the
\* sessions stored for that room (a session is stored until its grace timer
\* has run), no session is a member of two rooms, and no session has two
\* entries in one room.
C3_MembershipExact ==
    /\ \A r \in RoomNames : rooms[r].users = SessionsOf(r)
    /\ \A r1, r2 \in RoomNames : r1 # r2 => rooms[r1].users \cap rooms[r2].users = {}
    /\ \A u, v \in Members : sock[u].key = sock[v].key => u = v

\* a grace timer has just removed a member while a socket whose session was
\* taken over by a later connect is still open, and the other room has members
C3_Witness ==
    /\ lastH.kind = "grace" /\ lastH.changed
    /\ \E u \in SocketIds : sock[u].state = "connected" /\ u \notin Members
    /\ \E r \in RoomNames : r # lastH.room /\ rooms[r].users # {}

\* what holds of the room list broadcast in every state
C8_DebounceInv ==
    /\ \A i \in 1..Len(out) :
          (out[i].ev = "server:rooms:list" /\ out[i].scope = "all") => lastH.kind = "roomList"
    /\ lastH.kind = "roomList" =>
          /\ lastH.quiet = Debounce
          /\ lastH.gap = Debounce
          /\ lastH.covered >= 1
    /\ Len(listTimers) = (IF uncovered > 0 THEN 1 ELSE 0)

C9_SwitchLeavesOldRoomAtOnce ==
    (lastH.kind = "connect" /\ lastH.prior.present /\ lastH.prior.roomName # lastH.room) =>
        LET oldRoomName == lastH.prior.roomName
            oldId == lastH.prior.userId
        IN /\ oldId \notin rooms[oldRoomName].users
           /\ \E i, j, k \in 1..Len(out) :
                 /\ i < k /\ j < k
                 /\ out[i] = Msg("user:left", "room", oldRoomName, 0, oldId, {})
                 /\ out[j] = Msg("users:load", "room", oldRoomName, 0, 0,
                                 rooms[oldRoomName].users)
                 /\ out[k].ev = "users:load" /\ out[k].room = lastH.room

\* a room switch while the old socket's grace timer is still pending, with
\* another member left in the old room
C9_Witness ==
    /\ lastH.kind = "connect" /\ lastH.prior.present /\ lastH.prior.roomName # lastH.room
    /\ sock[lastH.prior.userId].state = "closed"
    /\ \E i \in 1..Len(graceTimers) : graceTimers[i] = lastH.prior.userId
    /\ rooms[lastH.prior.roomName].users # {}

\* C10: a grace timer that fires for a socket id the session registry does
\* not hold for that session token changes no membership and emits nothing,
\* and no socket's departure is announced twice.
C10_StaleTimerIsNoOp ==
    /\ (lastH.kind = "grace" /\ lastH.stale) => (out = <<>> /\ ~lastH.changed)
    /\ \A s \in SocketIds : leftCount[s] <= 1

\* the members of a room that belong to the session of socket s
EntriesOf(r, s) == {u \in rooms[r].users : sock[u].key = sock[s].key}

Reconnected ==
    lastH.kind = "connect" /\ lastH.prior.present /\ lastH.prior.roomName = lastH.room

\* C11: a connect whose session token is stored for the same room removes
\* the entry of the session's old socket id from the room and adds one for
\* the new socket id, so that the room holds exactly one entry of that
\* session; the reconnected acknowledgment goes to the new socket only.
C11_ReconnectReplacesEntry ==
    Reconnected =>
        /\ lastH.prior.userId \notin rooms[lastH.room].users
        /\ lastH.sock \in rooms[lastH.room].users
        /\ EntriesOf(lastH.room, lastH.sock) = {lastH.sock}
        /\ \E i \in 1..Len(out) :
              /\ out[i] = Msg("server:reconnected", "socket", "", lastH.sock, 0, {})
              /\ \A j \in 1..Len(out) : out[j].ev = "server:reconnected" => j = i

\* a reconnection to a room that has another member, while the old socket
\* is still open
C11_Witness ==
    /\ Reconnected
    /\ sock[lastH.prior.userId].state = "connected"
    /\ Cardinality(rooms[lastH.room].users) >= 2

\* the session of a disconnected socket that no later connect has taken over
Disconnected(k) ==
    userSessions[k].present /\ sock[userSessions[k].userId].state = "closed"

\* the grace timer of socket s has not fired yet
TimerPending(s) == \E i \in 1..Len(graceTimers) : graceTimers[i] = s

\* what the grace timer does for a socket whose session it still holds
C12_ExpiryStep ==
    (lastH.kind = "grace" /\ ~lastH.stale) =>
        /\ lastH.sock \notin rooms[lastH.room].users
        /\ ~userSessions[sock[lastH.sock].key].present
        /\ \E i \in 1..Len(out) :
              out[i] = Msg("user:left", "others", lastH.room, lastH.sock, lastH.sock, {})
        /\ \E i \in 1..Len(out) :
              out[i] = Msg("users:load", "room", lastH.room, 0, 0, rooms[lastH.room].users)

\* the step above; and a disconnected session has its socket's grace timer pending
C12_ExpiryRemoves ==
    /\ \A k \in SessionKeys : Disconnected(k) => TimerPending(userSessions[k].userId)
    /\ C12_ExpiryStep

\* C12: when the grace timer of a disconnected socket fires and no connect
\* has taken its session over, the socket is removed from its room, the
\* departure is emitted to the room and the session is deleted; a session
\* whose socket is disconnected has that socket's grace timer pending, and
\* every pending grace timer fires, so that no session stays disconnected.
C12_GraceExpiry ==
    /\ []C12_ExpiryRemoves
    /\ (graceTimers # <<>>) ~> (graceTimers = <<>>)

\* a grace timer has removed a socket from a room where a member remains
C12_Witness ==
    /\ lastH.kind = "grace" /\ ~lastH.stale /\ lastH.changed
    /\ rooms[lastH.room].users # {}
    /\ Len(out) = 2

\* ------------------------------------------------------------------------
\* Properties of the files of DrawingState
\* ------------------------------------------------------------------------
\* C13: when undo() or redo() has returned success, the primary file holds
\* the resulting history (the write is made inside the call, not left to
\* the save timer).
C13_UndoRedoSavedAtOnce ==
    (last.kind \in {"undo", "redo"} /\ last.ok /\ diskWritable) =>
        (primary.kind = "array" /\ parse(primary.ops) = history)

\* a file that holds an operation array
Usable(f) == f.kind = "array"

\* C15: after a load, when the primary file is missing, unparsable or not
\* an array, history holds the operations of the backup file if that is
\* usable, and is empty if it is not.
C15_LoadFallsBack ==
    (last.kind = "load" /\ ~Usable(primary)) =>
        /\ historyIsArray
        /\ Usable(backup) =>
              (Len(history) = Len(backup.ops) /\ Range(history) = Range(parse(backup.ops)))
        /\ ~Usable(backup) => history = <<>>


\* what the atomic saveToDisk makes of the files the call in progress found
Atomic == saveToDisk(saving.h, TRUE, saving.from, saving.backupFrom, TRUE)

\* C14: whatever step of a save the process stops in or after, the primary
\* file is whole: it holds the content it had when the save was entered or
\* the content the save writes, and is never a partly written file
C14_PrimaryWhole ==
    /\ primary \in {saving.from, saving.to}
    /\ primary # Partial

\* a process stopped in the middle of writeFileSync: the temporary file is
\* torn, the primary file still has the old content, which differs from the new
C14_Witness ==
    /\ saving.result = "crashed:write"
    /\ tmp = Partial
    /\ primary = saving.from
    /\ saving.from # saving.to
    /\ saving.from.kind = "array"

\* C18: a save of which a step throws returns normally to its caller and
\* leaves drawingHistory and redoStack as they were when it was entered; a
\* save that goes through writes the whole drawingHistory of that moment
C18_FailedSaveKeepsMemory ==
    /\ saving.pc = "idle" /\ saving.result \in {"failed", "done"} /\ last.kind \in {"save", "clear"}
         => /\ last.ok
            /\ history = saving.h
            /\ redoStack = saving.r
    /\ saving.pc # "idle" => history = saving.h /\ redoStack = saving.r
    /\ saving.pc = "idle" /\ saving.result = "done" /\ last.kind \in {"save", "clear"}
         => /\ primary = serialized(history, historyIsArray)
            /\ historyIsArray => primary = Atomic.primary /\ backup = Atomic.backup

\* a save that goes through after one that failed, with two operations in memory
C18_Witness ==
    /\ saving.pc = "idle"
    /\ saving.result = "done"
    /\ saving.afterFailure
    /\ last.kind = "save"
    /\ Len(history) = 2
    /\ primary = ArrayFile(stringify(history))


\* the operations of the primary file
Persisted == IF primary.kind = "array" THEN Range(parse(primary.ops)) ELSE {}

C16_SaveDebounceInv ==
    /\ Len(saveClock.timers) <= 1
    /\ saveTimeout <=> saveClock.timers # <<>>
    /\ saveClock.pending > 0 => saveClock.timers # <<>>
    /\ last.kind = "save" =>
          /\ saveClock.quiet = SaveDebounce
          /\ saveClock.covered >= 1
          /\ primary = ArrayFile(stringify(history))
    /\ saveClock.pending = 0 => Persisted = Range(history)

\* C16: add and updateById keep at most one save timer pending; the calls
\* that follow each other within one window are answered by one write, made
\* a whole window after the last of them, of the history of that moment;
\* so whenever no call is waiting for its write every operation of history
\* is in the primary file, and every call is followed by such a write.
C16_SaveDebounce ==
    /\ []C16_SaveDebounceInv
    /\ (saveClock.pending > 0) ~> (last.kind = "save" /\ saveClock.pending = 0)

\* one write has just answered two or more calls
C16_Witness ==
    /\ last.kind = "save"
    /\ saveClock.covered = 2
    /\ saveClock.timers = <<>>
    /\ Len(history) = 2
    /\ Persisted = Range(history)


\* C17: when the clear handler is done, drawingHistory and redoStack are
\* empty, the primary file holds [] and the room has been sent the empty
\* history; from then on the primary file changes only by a save of a
\* history that is not empty, so a timer set before the clear writes [] again.
C17_ClearState ==
    last.kind = "clear" =>
        /\ history = <<>>
        /\ redoStack = <<>>
        /\ primary = ArrayFile(<<>>)
        /\ \E i \in 1..Len(out) : out[i] = HistoryMsg("room", LogRoom, <<>>)

C17_StaysEmpty ==
    (primary = ArrayFile(<<>>) /\ primary' # primary) =>
        /\ last'.kind = "save"
        /\ history' # <<>>
        /\ primary' = ArrayFile(stringify(history'))

C17_ClearPersists == []C17_ClearState /\ [][C17_StaysEmpty]_vars

\* the timer that was pending when the room was cleared has fired: the save
\* found [] in the primary file, copied it to the backup and wrote [] again
C17_Witness ==
    /\ last.kind = "save"
    /\ lastH.kind = "clear"
    /\ ~saveTimeout
    /\ history = <<>>
    /\ primary = ArrayFile(<<>>)
    /\ backup = ArrayFile(<<>>)

\* C19: from an empty log the ids of history are pairwise different; a
\* submit whose id is in history replaces that entry and keeps the length,
\* every other accepted submit adds one entry and changes no other.
C19_IdsUnique ==
    /\ UniqueIds(history)
    /\ (last.kind = "submit" /\ last.ok) =>
          IF last.op.id \in IdsOf(pre)
          THEN /\ Len(history) = Len(pre)
               /\ last.index > 0
               /\ history[last.index].id = last.op.id
               /\ history[last.index].payload = last.op.payload
               /\ \A i \in 1..Len(pre) : i # last.index => history[i] = pre[i]
          ELSE /\ Len(history) = Len(pre) + 1
               /\ \E i \in 1..Len(history) :
                     /\ history[i].id = last.op.id
                     /\ RemoveAt(history, i) = pre

\* a stored stroke has just been replaced by a shape of the same id, next to
\* another operation
C19_Witness ==
    /\ last.kind = "submit"
    /\ last.ok
    /\ last.index > 0
    /\ Len(history) = 2
    /\ pre[last.index].payload = "stroke"
    /\ history[last.index].payload = "shape"

\* what the claim calls failing validation
Refused(raw) ==
    \/ ~raw.isObject
    \/ raw.type \notin {"stroke", "shape"}
    \/ raw.type = "stroke" /\ (raw.points # "some" \/ raw.color = "" \/ raw.width # "number")
    \/ raw.type = "shape" /\ (raw.shape = "" \/ raw.numeric # Coords \/ raw.color = ""
                               \/ raw.width # "number")

C20_RefusedStep ==
    (last'.kind = "submit" /\ Refused(last'.raw)) =>
        /\ UNCHANGED <<history, redoStack, primary, backup, tmp, saveTimeout, saveClock>>
        /\ out' = <<Msg("server:error", "socket", "", lastH'.sock, 0, {})>>

\* C20: a submit that fails validation changes neither history nor
\* redoStack nor the files, sets no save timer and emits one message only,
\* an error, to the submitting socket.
C20_InvalidSubmitRefused == [][C20_RefusedStep]_vars

\* a shape with a missing field has just been refused while the room had a
\* stored operation, an undone one and a written file, and no timer pending
C20_Witness ==
    /\ last.kind = "submit"
    /\ Refused(last.raw)
    /\ last.raw.type = "shape"
    /\ lastH.sock = 2
    /\ history # <<>>
    /\ redoStack # <<>>
    /\ primary.kind = "array"
    /\ ~saveTimeout
    /\ out = <<Msg("server:error", "socket", "", 2, 0, {})>>


\* the query lacks roomName, username or color
Lacking(q) == q.roomName = "" \/ q.username = "" \/ q.color = ""

\* socket s is answered in this step, and its query lacked something
Answered(s) == sock[s].state = "new" /\ sock'[s].state # "new" /\ Lacking(lastH'.query)

C21_RejectStep ==
    \A s \in SocketIds :
        Answered(s) =>
            /\ sock'[s].state = "rejected"
            /\ out' = <<Msg("server:error", "socket", "", s, 0, {})>>
            /\ \A t \in SocketIds \ {s} : sock'[t] = sock[t]
            /\ UNCHANGED <<rooms, userSessions, graceTimers, emptyTimers, listTimers>>
            /\ UNCHANGED <<history, redoStack, primary, backup, saveTimeout>>

\* C21: a connection whose query lacks roomName, username or color is sent
\* an error and closed; sessions, rooms, memberships, timers and logs stay
\* as they are and no other message is emitted.
C21_IncompleteQueryRejected == [][C21_RejectStep]_vars

\* a query without color has just been rejected while a room had members
\* and a session was stored
C21_Witness ==
    /\ lastH.kind = "reject"
    /\ lastH.query = Query("alpha", "u", "", NoToken)
    /\ sock[lastH.sock].state = "rejected"
    /\ rooms["alpha"].users # {}
    /\ \E k \in SessionKeys : userSessions[k].present
    /\ out = <<Msg("server:error", "socket", "", lastH.sock, 0, {})>>


\* C22: the undo requests of the members of a room that follow each other
\* with no other call on the log are applied one after another: k of them
\* take the last min(k, |history|) operations off the history they started
\* from; a successful one sends the room the history it leaves and a notice
\* with the id of the operation it took off and the requester, a failing one
\* an error to the requester; so the history sent last is the final history.
C22_UndosApplyInTurn ==
    rt.phase = "undos" =>
        /\ Len(history) = Len(rt.h) - Min(rt.k, Len(rt.h))
        /\ history = SubSeq(rt.h, 1, Len(history))
        /\ rt.load.sent <=> Len(rt.h) > 0
        /\ rt.load.sent => rt.load.h = history
        /\ (last.kind = "undo" /\ last.ok) =>
              out = <<HistoryMsg("room", LogRoom, history),
                      OpNotice("server:operation:undone", LogRoom, lastH.sock,
                               rt.h[Len(history) + 1].id)>>
        /\ (last.kind = "undo" /\ ~last.ok) =>
              out = <<Msg("server:error", "socket", "", lastH.sock, 0, {})>>

\* three undo requests on a history of two operations, the last by socket 2
C22_Witness ==
    /\ rt.phase = "undos"
    /\ rt.k = 3
    /\ Len(rt.h) = 2
    /\ history = <<>>
    /\ last.kind = "undo"
    /\ lastH.sock = 2
    /\ rt.load = [sent |-> TRUE, h |-> <<>>]


C23_EmptyStep ==
    (last'.kind = "undo" /\ history = <<>>) \/ (last'.kind = "redo" /\ redoStack = <<>>) =>
        /\ UNCHANGED <<history, redoStack, primary, backup, tmp, saveTimeout, saveClock>>
        /\ out' = <<Msg("server:error", "socket", "", lastH'.sock, 0, {})>>

\* C23: undo on an empty history and redo on an empty redo stack change
\* neither history nor redo stack nor the files and set no save timer; the
\* handler emits one message only, an error on the requester's socket.
C23_NothingToUndo == [][C23_EmptyStep]_vars

\* a redo has just failed on an empty redo stack while the history was not
\* empty, the file was written and no save timer was pending
C23_Witness ==
    /\ last.kind = "redo"
    /\ ~last.ok
    /\ redoStack = <<>>
    /\ history # <<>>
    /\ primary = ArrayFile(stringify(history))
    /\ ~saveTimeout
    /\ out = <<Msg("server:error", "socket", "", lastH.sock, 0, {})>>


\* C24: nothing the caller of getHistory() does to the array it was given
\* (adding, removing or reordering elements, assigning to a field of an
\* operation in it) changes the log's history, hence what a later
\* getHistory() returns.
C24_SnapshotIsDefensive == [][UNCHANGED <<history, redoStack>>]_vars


C27_RemovalStep ==
    \A r \in RoomNames :
        (rooms[r].exists /\ ~rooms'[r].exists) =>
            /\ rooms[r].users = {}
            /\ lastH'.kind = "empty"
            /\ UNCHANGED <<primary, backup, tmp>>

\* C27: a room leaves the map only in a step that finds its users empty, a
\* room with a member is never removed, and the step leaves the primary,
\* backup and temporary file as they are.
C27_RemovedOnlyWhenEmpty == [][C27_RemovalStep]_vars

\* the 30 s timer has just removed an empty room while the other room had
\* members
C27_Witness ==
    /\ lastH.kind = "empty"
    /\ lastH.changed
    /\ ~rooms[lastH.room].exists
    /\ \E r \in RoomNames : rooms[r].users # {}


C29_MembershipStep ==
    (\E r \in RoomNames : rooms'[r].users # rooms[r].users) =>
        listTimers' # <<>>

\* C29: every step that changes the members of a room (a join of a new or of
\* an existing room, a reconnection, a room switch, a departure when the
\* grace timer fires) leaves a room list broadcast scheduled, so that the
\* member counts sent to all connections catch up with the membership.
C29_ChangeSchedulesRoomList == [][C29_MembershipStep]_vars


\* C26: an accepted submit is answered by one server:operation:add, sent to
\* the whole room of the submitter, the submitter included, and to that room
\* only; it carries the operation with an id, a timestamp and the
\* submitter's socket id as userId.
C26_AcceptedIsBroadcast ==
    (last.kind = "submit" /\ last.ok) =>
        /\ Cardinality({i \in 1..Len(out) : out[i].ev = "server:operation:add"}) = 1
        /\ out[1].ev = "server:operation:add"
        /\ out[1].scope = "room"
        /\ out[1].room = sock[lastH.sock].room
        /\ out[1].op.id = last.op.id /\ out[1].op.id # NoId
        /\ out[1].op.timestamp = last.op.timestamp /\ out[1].op.timestamp # 0
        /\ \E i \in 1..Len(history) : Tagged(history[i], lastH.sock) = out[1].op
        /\ out[1].op.payload = last.raw.type
        /\ out[1].op.userId = lastH.sock
        /\ \A i \in 2..Len(out) : out[i].room = sock[lastH.sock].room

\* a stroke that came without id and timestamp has just been accepted from
\* socket 2 and sent to the room with both filled in
C26_Witness ==
    /\ last.kind = "submit"
    /\ last.ok
    /\ last.raw.id = NoId
    /\ last.raw.timestamp = 0
    /\ lastH.sock = 2
    /\ out[1].op.id \in GenIds
    /\ out[1].op.userId = 2
    /\ Len(history) = 2

\* the list the rooms make up: each live room with its member count, and each
\* room file that belongs to no live room with member count 0
RoomsOf(live, files) ==
    {[name |-> r.name, userCount |-> r.users] : r \in live}
    \cup {[name |-> b, userCount |-> 0] :
            b \in {c \in getAllRooms(files) :
                     \A r \in live : sanitizeRoomName(r.name) # c}}

C28_ListStep ==
    roomList'.list # roomList.list =>
        /\ roomList'.list = RoomsOf(roomList.live, roomList.files)
        /\ \A e, f \in roomList'.list : e.name = f.name => e = f

\* C28: getRoomList() returns every live room exactly once with its current
\* member count and every room known only from its file exactly once with
\* member count 0, and no room twice when it is both live and stored, for
\* every room name, those the file-name sanitizer changes included.
C28_ListDeduplicated == [][C28_ListStep]_vars

\* the connections an emit reaches, sk being the sockets after the handler
Receivers(m, sk) ==
    LET joined(r) == {t \in SocketIds : sk[t].state = "connected" /\ sk[t].room = r}
    IN IF m.scope = "socket" THEN {m.sock}
       ELSE IF m.scope = "room" THEN joined(m.room)
       ELSE IF m.scope = "others" THEN joined(m.room) \ {m.sock}
       ELSE {t \in SocketIds : sk[t].state = "connected"}

Sent(msgs, ev) == {i \in 1..Len(msgs) : msgs[i].ev = ev}

HistoryOf(roomName, h, other) == IF roomName = LogRoom THEN h ELSE other.history

C25_JoinStep ==
    \A s \in SocketIds :
        (sock[s].state = "new" /\ sock'[s].state = "connected") =>
            LET R == sock'[s].room
                members == {t \in SocketIds : sock'[t].state = "connected" /\ sock'[t].room = R}
                file == IF R = LogRoom THEN primary ELSE elsewhere.primary
            IN /\ \E i \in 1..Len(out') :
                    /\ Sent(out', "server:history:load") = {i}
                    /\ Receivers(out'[i], sock') = {s}
                    /\ out'[i].history = HistoryOf(R, history', elsewhere')
                    /\ ~rooms[R].exists =>
                           out'[i].history =
                               (IF file.kind = "array" THEN parse(file.ops) ELSE <<>>)
               /\ \E i \in 1..Len(out') :
                    /\ Sent(out', "server:rooms:list") = {i}
                    /\ Receivers(out'[i], sock') = {s}
               /\ \E i \in 1..Len(out') :
                    /\ Sent(out', "users:load") \cap {j \in 1..Len(out') : out'[j].room = R} = {i}
                    /\ Receivers(out'[i], sock') = members
                    /\ out'[i].members = rooms'[R].users
                    /\ s \in out'[i].members
               /\ \E i \in 1..Len(out') :
                    /\ Sent(out', "user:joined") = {i}
                    /\ Receivers(out'[i], sock') = members \ {s}

\* C25: on every join the joining connection, and no other, is sent a
\* server:history:load with the room's current history (what was loaded from
\* the room file when this join creates the room) and a server:rooms:list;
\* users:load with the membership, the joiner included, goes to the whole room
\* and user:joined to every connection of the room but the joiner.
C25_JoinAnswers == [][C25_JoinStep]_vars

\* a connection has joined a room in which another connection is, and was
\* sent a history that is not empty
C25_Witness ==
    /\ lastH.kind = "connect"
    /\ \E t \in SocketIds \ {lastH.sock} :
         sock[t].state = "connected" /\ sock[t].room = lastH.room
    /\ \E i \in 1..Len(out) :
         /\ out[i].ev = "server:history:load"
         /\ out[i].scope = "socket"
         /\ out[i].history # <<>>

DrawingKinds == {"operation:add", "undo", "redo", "clear"}

C30_HandlerStep ==
    lastH'.kind \in DrawingKinds =>
        LET R == sock[lastH'.sock].room
        IN /\ R # LogRoom => UNCHANGED <<history, redoStack>>
           /\ R # OtherRoom => /\ elsewhere'.history = elsewhere.history
                               /\ elsewhere'.redoStack = elsewhere.redoStack
           /\ \A r \in RoomNames \ {R} : rooms'[r] = rooms[r]
           /\ \A i \in 1..Len(out') :
                \A t \in Receivers(out'[i], sock') : sock'[t].room = R

\* C30: the handler of client:operation:add, client:undo, client:redo or
\* client:clear of a connection of room R changes the history and the redo
\* stack of R only: those of the other room and the membership of every other
\* room stay as they were, and no message of the handler reaches a connection
\* of another room.
C30_RoomsAreApart == [][C30_HandlerStep]_vars

\* a connection of OtherRoom has drawn while LogRoom has a member and a
\* history of its own
C30_Witness ==
    /\ lastH.kind \in DrawingKinds
    /\ lastH.room = OtherRoom
    /\ elsewhere.history # <<>>
    /\ history # <<>>
    /\ history # elsewhere.history
    /\ rooms[LogRoom].users # {}
    /\ \E i \in 1..Len(out) : out[i].scope = "room"

C33_CopyFailureStep ==
    (saving.pc = "copy" /\ saving'.pc = "idle" /\ saving'.result = "failed") =>
        primary' = saving.to

\* C33: when copying the primary file to .backup fails, the save still
\* writes the temporary file and renames it: the save call that returns
\* after a failed copy leaves the new content in the primary file.
C33_BackupIsBestEffort == [][C33_CopyFailureStep]_vars

\* C39: when the primary file or the .backup file holds a whole history as a
\* save is entered, one of the two holds a whole history at every step of
\* that save and after a stop of the process at any of its steps.
C39_OneFileStaysWhole ==
    (Usable(saving.from) \/ Usable(saving.backupFrom)) =>
        (Usable(primary) \/ Usable(backup))

C37_UndoRedoStep ==
    /\ (last'.kind = "undo" /\ last'.ok /\ Len(history') < Len(history) /\ IsSorted(history)) =>
           \A i \in 1..Len(history) : history[i].timestamp <= last'.op.timestamp
    /\ (last'.kind = "redo" /\ last'.ok /\ Len(history') > Len(history) /\ IsSorted(history)) =>
           history'[Len(history')] = last'.op

\* C37: on a sorted history a successful undo() removes an operation whose
\* timestamp is maximal, and a successful redo() leaves the redone operation
\* as the last element of history.
C37_RedoAppends == [][C37_UndoRedoStep]_vars

\* C38: two live rooms with different names have different room files, so
\* neither reads or writes the file of the other.
C38_OneFilePerRoom ==
    \A r1, r2 \in roomList.live :
        r1.name # r2.name => filePath(r1.name) # filePath(r2.name)

\* C36: every session of userSessions names a room that is in the room map
\* and whose users hold the session's current socket id; after the timer of
\* a disconnect has removed a socket from its room, the session of that
\* socket is gone.
C36_SessionsAreMembers ==
    /\ \A k \in SessionKeys :
         userSessions[k].present =>
             /\ rooms[userSessions[k].roomName].exists
             /\ userSessions[k].userId \in rooms[userSessions[k].roomName].users
    /\ (lastH.kind = "grace" /\ lastH.changed) => ~userSessions[sock[lastH.sock].key].present

\* the timer of a disconnect has removed the socket of a session that another
\* socket had used before, and the session is gone while the room is kept
C36_Witness ==
    /\ lastH.kind = "grace"
    /\ lastH.changed
    /\ sock[lastH.sock].key.tok # NoToken
    /\ lastH.sock = 2
    /\ rooms[lastH.room].exists
    /\ ~userSessions[sock[lastH.sock].key].present

C32_RemovalStep ==
    \A r \in RoomNames :
        (rooms[r].exists /\ ~rooms'[r].exists) => window.idle[r] = EmptyWindow

\* C32: a room leaves the map only when it has been without a user for the
\* whole 30 s since the last departure, also when a user joined and left
\* again while an earlier timer of checkEmptyRoom was pending.
C32_RemovedAfterFullWindow == [][C32_RemovalStep]_vars

\* C34: every client:operation:add, client:undo, client:redo and client:clear
\* is applied to the DrawingState that the map holds under the room's name at
\* that moment, never to one that was removed from the map.
C34_AppliedToRegisteredLog ==
    lastH.kind \in DrawingKinds => (~lastH.stale /\ rooms[lastH.room].exists)

C35_RecreationStep ==
    (~old.made /\ old'.made) =>
        /\ history' = old'.evicted.h
        /\ ~old'.saveTimeout

\* C35: when a room that was removed from the map is created again, the
\* history it loads is the history the removed room had in memory when it
\* was removed, and no save timer of the removed DrawingState is pending.
C35_RecreatedWithEvictedHistory == [][C35_RecreationStep]_vars

\* ------------------------------------------------------------------------
\* DrawingCanvas: the history a client keeps of what the server sends
\* ------------------------------------------------------------------------
\* the operation of a server:operation:add, with the fields the log keeps
Untagged(op) == [id |-> op.id, timestamp |-> op.timestamp, payload |-> op.payload]

\* DrawingCanvas.addOperationToHistory(operation): an id that this.history
\* has already is dropped; otherwise push, then a stable sort on timestamp
addOperationToHistory(h, operation) ==
    IF \E i \in 1..Len(h) : h[i].id = operation.id
    THEN h
    ELSE sortOperations(Append(h, operation))

\* DrawingCanvas.loadHistoryFromServer(history): this.history = history
loadHistoryFromServer(h, received) == received

\* the listeners of SocketService that reach this.history
onServerMessage(h, m) ==
    IF m.ev = "server:history:load" THEN loadHistoryFromServer(h, m.history)
    ELSE IF m.ev = "server:operation:add" THEN addOperationToHistory(h, Untagged(m.op))
    ELSE h

\* this.history of client c after the messages msgs, taken in sending order
RECURSIVE deliver(_, _, _, _)
deliver(h, msgs, c, sk) ==
    IF msgs = <<>> THEN h
    ELSE deliver(IF c \in Receivers(msgs[1], sk) THEN onServerMessage(h, msgs[1]) ELSE h,
                 Tail(msgs), c, sk)

C31_DeliveryStep ==
    (/\ lastH'.kind \in DrawingKinds
     /\ <<history, redoStack, out, lastH>>' # <<history, redoStack, out, lastH>>
     /\ historyIsArray /\ historyIsArray') =>
        \A c \in SocketIds :
            (sock[c].state = "connected" /\ sock[c].room = LogRoom) =>
                deliver(history, out', c, sock) = history'

\* C31: a client of the room whose history equals the log before a drawing
\* event has, once the messages of that event are delivered to it in sending
\* order, a history equal to the log after the event: same operations, same
\* payloads, same order.
C31_ClientFollowsLog == [][C31_DeliveryStep]_vars

\* C40: the client issues at most maxReconnectAttempts reconnection connects
\* with no 'connect' event in between, the k-th one 2^(k-1) seconds after it
\* was scheduled; a 'connect' event sets the counter to 0; when the limit is
\* found the error is reported and no timer is set; once disconnect() was
\* called no timer issues a connect and no socket is opened.
C40_ReconnectionIsBounded ==
    /\ client.issued <= maxReconnectAttempts
    /\ client.reconnectAttempts <= maxReconnectAttempts
    /\ \A i \in 1..Len(client.timers) :
         /\ client.timers[i].k \in 1..maxReconnectAttempts
         /\ client.timers[i].delay = Pow2(client.timers[i].k - 1)
    /\ client.lastRun.kind = "timer" =>
         /\ client.lastRun.waited = Pow2(client.lastRun.k - 1)
         /\ client.lastRun.connected => client.issued = client.lastRun.k
         /\ client.lastRun.intended => ~client.lastRun.connected
    /\ client.lastRun.kind = "connect" =>
         (client.reconnectAttempts = 0 /\ client.issued = 0)
    /\ client.reportedLimit =>
         /\ client.error = "Unable to reconnect to server"
         /\ client.timers = <<>>
         /\ client.issued = maxReconnectAttempts
    /\ client.intended => client.socket = "closed"

C40_Witness ==
    /\ client.reportedLimit
    /\ client.lastRun.kind = "connect_error"
    /\ client.issued = maxReconnectAttempts

====
